---- MODULE Spec2Model ----
(***************************************************************************)
(* A model of the eatswithbene ordering application:                       *)
(*   - the order form (src/src/components/OrderForm.tsx): pricing, pack    *)
(*     clamping, order-type eligibility, submission and reset;             *)
(*   - the vendor dashboard in its two variants                            *)
(*     (src/src/components/DashboardContent.tsx and                        *)
(*     src/src/pages/Dashboard.tsx): fetching, analytics and the order     *)
(*     actions, with every remote call a message in flight;                *)
(*   - the vendor login (src/src/pages/Login.tsx) and the order tracking   *)
(*     page (src/unnamed/part_000, ViewOrder).                             *)
(***************************************************************************)
EXTENDS Integers, Sequences, FiniteSets, TLC

VARIABLES
    \* ---- order form (OrderForm.tsx) ----
    today,                \* new Date().getDay() as read by the mount effect
    mounted,              \* the mount effect has run
    formData,             \* useState formData
    agreedToTerms,        \* useState agreedToTerms
    isSubmitting,         \* useState isSubmitting
    isSuccess,            \* useState isSuccess
    trackingToken,        \* useState trackingToken (orderId is set with it)
    availableOrderTypes,  \* useState availableOrderTypes
    isWeekend,            \* useState isWeekend
    insertCall,           \* the insert of handleSubmit, while in flight
    ordersTable,          \* remote table "orders" as written by the form
    localStorage,         \* window.localStorage: keys "orders", "last_order_token"
    editsInFlight,        \* inputs taken while the insert was in flight
    formToast,            \* toast issued by the last handler ("none": no toast)
    priceShown            \* the price breakdown of the last render

VARIABLES
    \* ---- vendor dashboard (DashboardContent.tsx, pages/Dashboard.tsx) ----
    variant,              \* which of the two dashboard files runs
    sessions,             \* the browser sessions showing the dashboard
    nowDay,               \* new Date(), as a day of the year
    db,                   \* remote table "orders": order id -> row
    dashMounted,          \* per session: the effect of the first render ran
    orders,               \* per session: useState orders
    analytics,            \* per session: useState analytics
    loading,              \* per session: useState loading
    dateRange,            \* per session: useState dateRange
    customStartDate,      \* per session: useState customStartDate (0: "")
    customEndDate,        \* per session: useState customEndDate (0: "")
    selectedOrder,        \* per session: useState selectedOrder
    actionType,           \* per session: useState actionType
    calls,                \* per session: the remote calls in flight
    dashToast             \* toasts issued by the last step of a dashboard

VARIABLES
    \* ---- vendor login (pages/Login.tsx) ----
    loginOpen,            \* the login page is rendered
    loginForm,            \* useState formData: email, password, rememberMe
    loginLoading,         \* useState loading
    loginErrors,          \* useState errors ("": no message for the field)
    loginCall,            \* signInWithPassword, while in flight
    loginToast,           \* toast issued by the last step of the login page
    vendor_email,         \* localStorage key "vendor_email" (<< >>: absent)
    navigateTimer         \* setTimeout(() => navigate("/dashboard"), 1000) is set

VARIABLES
    \* ---- slot ranges of the vendor dashboard (DashboardContent.tsx) ----
    slotsTable,           \* remote table "slots": slot id -> row
    slots,                \* useState slots
    isSlotModalOpen,      \* useState isSlotModalOpen
    selectedSlot,         \* useState selectedSlot
    slotForm,             \* useState slotForm
    slotCalls             \* the remote calls on "slots" in flight

VARIABLES
    \* ---- order tracking (ViewOrder, src/unnamed/part_000) ----
    viewOpen,             \* the tracking page is rendered
    viewToken,            \* useState trackingToken
    viewOrder,            \* useState order
    viewLoading,          \* useState loading
    viewError,            \* useState error
    lookups,              \* the lookups of searchOrder in flight
    viewToast,            \* toast issued by the last step of the tracking page
    recent_orders,        \* localStorage key "recent_orders"
    route                 \* the page rendered: "/", "/login", "/view-order",
                          \* "/dashboard"

loginVars == <<loginOpen, loginForm, loginLoading, loginErrors, loginCall,
               loginToast, vendor_email, navigateTimer>>

viewVars == <<viewOpen, viewToken, viewOrder, viewLoading, viewError, lookups,
              viewToast, recent_orders>>

\* the pages other than the order form and the dashboards
pageVars == <<loginVars, viewVars, route>>

slotVars == <<slotsTable, slots, isSlotModalOpen, selectedSlot, slotForm,
              slotCalls>>

\* the orders side of a dashboard
orderVars == <<variant, sessions, nowDay, db, dashMounted, orders, analytics,
               loading, dateRange, customStartDate, customEndDate,
               selectedOrder, actionType, calls>>

dashVars == <<variant, sessions, nowDay, db, dashMounted, orders, analytics,
              loading, dateRange, customStartDate, customEndDate,
              selectedOrder, actionType, calls, dashToast, slotVars>>

formVars == <<today, mounted, formData, agreedToTerms, isSubmitting, isSuccess,
              trackingToken, availableOrderTypes, isWeekend, insertCall,
              ordersTable, localStorage, editsInFlight, formToast,
              priceShown>>

vars == <<formVars, dashVars, pageVars>>

\* null / "no value" for record-valued state
Null == [null |-> TRUE]
\* null in a text column
NullText == "<null>"

\* useState slotForm; a date is a day of the year, 0 for ""
initialSlotForm ==
    [startDate |-> 0, endDate |-> 0, dailySlots |-> << "2", "0" >>,
     isActive |-> TRUE]

\* the slot dialog has not been used
SlotsIdle ==
    /\ slotsTable = << >>
    /\ slots = << >>
    /\ isSlotModalOpen = FALSE
    /\ selectedSlot = Null
    /\ slotForm = initialSlotForm
    /\ slotCalls = << >>

----------------------------------------------------------------------------
(* Order form: catalog and pricing, OrderForm.tsx 19-28 and 97-103          *)

foodTypes ==
    << [value |-> "fried-rice",         price |-> 25],
       [value |-> "noodles-chicken",    price |-> 25],
       [value |-> "noodles-no-chicken", price |-> 20] >>

baseOrderTypes == << "same-day", "pre-order" >>

RECURSIVE FindFrom(_, _, _)
\* Array.prototype.find on the catalog: the first entry with the value
FindFrom(list, v, i) ==
    IF i > Len(list) THEN Null
    ELSE IF list[i].value = v THEN list[i]
    ELSE FindFrom(list, v, i + 1)

selectedFood(fd) == FindFrom(foodTypes, fd.foodType, 1)

\* a lookup that falls back to the first catalog entry instead of zero
basePricePerPack_firstEntry(fd) ==
    IF selectedFood(fd) # Null THEN selectedFood(fd).price ELSE foodTypes[1].price

basePricePerPack(fd) ==
    IF selectedFood(fd) # Null THEN selectedFood(fd).price ELSE 0

subtotal(fd) == basePricePerPack(fd) * fd.packs

\* a rush fee charged on everything that is not a pre-order
rushFee_notPreOrder(fd) == IF fd.orderType # "pre-order" THEN 5 ELSE 0

rushFee(fd) == IF fd.orderType = "same-day" THEN 5 ELSE 0

deliveryFee(fd) == IF fd.deliverToMe THEN 8 ELSE 0

total(fd) == subtotal(fd) + rushFee(fd) + deliveryFee(fd)

----------------------------------------------------------------------------
(* Order form: state and handlers                                           *)

\* Bounds of the model
MaxOrders == 1          \* orders the form may insert in one behaviour
MaxEditsInFlight == 1   \* inputs taken while one insert is in flight

\* Inputs the user can type or pick
NameTexts == {"", "Ama"}
AddressTexts == {"", " ", "12 Main St"}
Days == 0 .. 6          \* Date.prototype.getDay(): 0 = Sunday .. 6 = Saturday

\* String.prototype.trim on the texts of the model
Trim(s) == IF s = " " THEN "" ELSE s

RECURSIVE FilterValue(_, _, _)
\* baseOrderTypes.filter(t => t.value === v)
FilterValue(list, v, i) ==
    IF i > Len(list) THEN << >>
    ELSE IF list[i] = v THEN << list[i] >> \o FilterValue(list, v, i + 1)
    ELSE FilterValue(list, v, i + 1)

initialFormData ==
    [name |-> "", foodType |-> "", packs |-> 1, orderType |-> "",
     pickupLocation |-> "Brampton", deliverToMe |-> FALSE,
     deliveryAddress |-> "", paymentMethod |-> "e-transfer"]

NoToast == "none"

\* no dashboard is open
DashIdle ==
    /\ variant = "none"
    /\ sessions = {}
    /\ nowDay = 0
    /\ db = << >>
    /\ dashMounted = << >>
    /\ orders = << >>
    /\ analytics = << >>
    /\ loading = << >>
    /\ dateRange = << >>
    /\ customStartDate = << >>
    /\ customEndDate = << >>
    /\ selectedOrder = << >>
    /\ actionType = << >>
    /\ calls = << >>
    /\ dashToast = << >>
    /\ SlotsIdle

\* no login page is open
LoginIdle ==
    /\ loginOpen = FALSE
    /\ loginForm = [email |-> << >>, password |-> << >>, rememberMe |-> FALSE]
    /\ loginLoading = FALSE
    /\ loginErrors = [email |-> "", password |-> ""]
    /\ loginCall = Null
    /\ loginToast = << >>
    /\ vendor_email = << >>
    /\ navigateTimer = FALSE

\* no tracking page is open
ViewIdle ==
    /\ viewOpen = FALSE
    /\ viewToken = << >>
    /\ viewOrder = Null
    /\ viewLoading = FALSE
    /\ viewError = ""
    /\ lookups = << >>
    /\ viewToast = << >>
    /\ recent_orders = << >>

PagesIdle == LoginIdle /\ ViewIdle

\* the form as constructed, before its mount effect
FormStart ==
    /\ mounted = FALSE
    /\ formData = initialFormData
    /\ agreedToTerms = FALSE
    /\ isSubmitting = FALSE
    /\ isSuccess = FALSE
    /\ trackingToken = 0
    /\ availableOrderTypes = << >>
    /\ isWeekend = FALSE
    /\ insertCall = Null
    /\ ordersTable = << >>
    /\ localStorage = [orders |-> << >>, last_order_token |-> 0]
    /\ editsInFlight = 0
    /\ formToast = NoToast
    /\ priceShown = Null

\* no order form is open
FormIdle == today = 0 /\ FormStart

InitForm ==
    /\ DashIdle
    /\ PagesIdle
    /\ route = "/"
    /\ today \in Days
    /\ FormStart

\* useEffect(() => {...}, []): order-type eligibility, run once after mount
MountForm ==
    /\ route = "/"
    /\ ~mounted
    /\ mounted' = TRUE
    /\ LET weekend == today = 0 \/ today = 6
           defaultType == IF weekend THEN "same-day" ELSE "pre-order"
       IN /\ isWeekend' = weekend
          /\ availableOrderTypes' = FilterValue(baseOrderTypes, defaultType, 1)
          /\ formData' = [formData EXCEPT !.orderType = defaultType]
    /\ UNCHANGED <<pageVars, dashVars, today, agreedToTerms, isSubmitting, isSuccess, trackingToken,
                   insertCall, ordersTable, localStorage, editsInFlight,
                   formToast, priceShown>>

\* the form is rendered (not replaced by the success view)
FormShown == mounted /\ ~isSuccess

\* an input of the form can take an event: the inputs stay enabled while the
\* insert is in flight
FormEditable ==
    /\ FormShown
    /\ Len(ordersTable) < MaxOrders
    /\ isSubmitting => editsInFlight < MaxEditsInFlight

\* what every input event leaves alone
InputFrame ==
    /\ editsInFlight' = IF isSubmitting THEN editsInFlight + 1 ELSE editsInFlight
    /\ formToast' = NoToast
    /\ UNCHANGED <<pageVars, dashVars, today, mounted, isSubmitting, isSuccess, trackingToken,
                   availableOrderTypes, isWeekend, insertCall, ordersTable,
                   localStorage, priceShown>>

\* a clamp that forgets the lower limit
clampPacks_noLower(p, delta) == IF 20 < p + delta THEN 20 ELSE p + delta

\* Math.max(1, Math.min(20, p + delta))
clampPacks(p, delta) ==
    LET m == IF 20 < p + delta THEN 20 ELSE p + delta
    IN IF 1 > m THEN 1 ELSE m

\* handlePacksChange(delta), from the - and + buttons
handlePacksChange(delta) ==
    /\ FormEditable
    /\ formData' = [formData EXCEPT !.packs = clampPacks(formData.packs, delta)]
    /\ UNCHANGED agreedToTerms
    /\ InputFrame

\* onChange of the name input
SetName(v) ==
    /\ FormEditable
    /\ formData.name # v
    /\ formData' = [formData EXCEPT !.name = v]
    /\ UNCHANGED agreedToTerms
    /\ InputFrame

\* onValueChange of the food type select
SetFoodType(v) ==
    /\ FormEditable
    /\ formData.foodType # v
    /\ formData' = [formData EXCEPT !.foodType = v]
    /\ UNCHANGED agreedToTerms
    /\ InputFrame

\* onChange of the "Deliver to Me" checkbox
SetDeliverToMe(checked) ==
    /\ FormEditable
    /\ formData.deliverToMe # checked
    /\ formData' = [formData EXCEPT
                       !.deliverToMe = checked,
                       !.deliveryAddress = IF checked THEN @ ELSE ""]
    /\ UNCHANGED agreedToTerms
    /\ InputFrame

\* onChange of the delivery address input, rendered while deliverToMe
SetDeliveryAddress(v) ==
    /\ FormEditable
    /\ formData.deliverToMe
    /\ formData.deliveryAddress # v
    /\ formData' = [formData EXCEPT !.deliveryAddress = v]
    /\ UNCHANGED agreedToTerms
    /\ InputFrame

\* onAgree of the disclaimer modal
SetAgreedToTerms(b) ==
    /\ FormEditable
    /\ agreedToTerms # b
    /\ agreedToTerms' = b
    /\ UNCHANGED formData
    /\ InputFrame

\* the submit button's disabled attribute
submitDisabled ==
    isSubmitting \/ isSuccess \/ total(formData) = 0 \/ ~agreedToTerms

\* the payload with the address field of the form as it is
insertPayload_addressAsTyped(fd) ==
    [customer_name |-> fd.name,
     food_type |-> fd.foodType,
     number_of_packs |-> fd.packs,
     order_type |-> fd.orderType,
     delivery_method |-> IF fd.deliverToMe THEN "delivery" ELSE "pickup",
     deliver_to_me |-> fd.deliverToMe,
     delivery_address |-> fd.deliveryAddress,
     pickup_location |-> fd.pickupLocation,
     payment_method |-> fd.paymentMethod,
     subtotal |-> subtotal(fd),
     rush_fee |-> rushFee(fd),
     delivery_fee |-> deliveryFee(fd),
     total_amount |-> total(fd),
     order_status |-> "pending",
     payment_status |-> "awaiting confirmation"]

\* the row handleSubmit inserts
insertPayload(fd) ==
    [customer_name |-> fd.name,
     food_type |-> fd.foodType,
     number_of_packs |-> fd.packs,
     order_type |-> fd.orderType,
     delivery_method |-> IF fd.deliverToMe THEN "delivery" ELSE "pickup",
     deliver_to_me |-> fd.deliverToMe,
     delivery_address |-> IF fd.deliverToMe THEN fd.deliveryAddress ELSE NullText,
     pickup_location |-> fd.pickupLocation,
     payment_method |-> fd.paymentMethod,
     subtotal |-> subtotal(fd),
     rush_fee |-> rushFee(fd),
     delivery_fee |-> deliveryFee(fd),
     total_amount |-> total(fd),
     order_status |-> "pending",
     payment_status |-> "awaiting confirmation"]

\* the toast of the first validation that fails, NoToast when all pass
validationToast ==
    IF ~agreedToTerms THEN "Agreement Required"
    ELSE IF Trim(formData.name) = "" THEN "Missing information"
    ELSE IF formData.foodType = "" THEN "Missing information"
    ELSE IF formData.orderType = "" THEN "Missing information"
    ELSE IF formData.deliverToMe /\ Trim(formData.deliveryAddress) = ""
         THEN "Delivery address required"
    ELSE NoToast

\* handleSubmit without its delivery-address rule
handleSubmit_withoutAddressCheck ==
    /\ FormShown
    /\ ~submitDisabled
    /\ Len(ordersTable) < MaxOrders
    /\ IF validationToast # NoToast
          /\ validationToast # "Delivery address required"
       THEN /\ formToast' = validationToast
            /\ UNCHANGED <<isSubmitting, insertCall>>
       ELSE /\ isSubmitting' = TRUE
            /\ insertCall' = insertPayload(formData)
            /\ formToast' = NoToast
    /\ UNCHANGED <<pageVars, dashVars, today, mounted, formData, agreedToTerms, isSuccess,
                   trackingToken, availableOrderTypes, isWeekend,
                   ordersTable, localStorage, editsInFlight, priceShown>>

\* handleSubmit up to its await: validation, then the insert is sent
handleSubmit ==
    /\ FormShown
    /\ ~submitDisabled
    /\ Len(ordersTable) < MaxOrders
    /\ IF validationToast # NoToast
       THEN /\ formToast' = validationToast
            /\ UNCHANGED <<isSubmitting, insertCall>>
       ELSE /\ isSubmitting' = TRUE
            /\ insertCall' = insertPayload(formData)
            /\ formToast' = NoToast
    /\ UNCHANGED <<pageVars, dashVars, today, mounted, formData, agreedToTerms, isSuccess,
                   trackingToken, availableOrderTypes, isWeekend,
                   ordersTable, localStorage, editsInFlight, priceShown>>

LocalStorageOutcomes == {"ok", "throwsBeforeOrders", "throwsBeforeToken"}

\* handleSubmit after its await, the insert having succeeded: the row is
\* stored, the token kept, localStorage written (which may throw into the
\* catch block), then the success view
insertSucceeds(ls) ==
    /\ insertCall # Null
    /\ LET token == Len(ordersTable) + 1
           row == [tracking_token |-> token] @@ insertCall
       IN /\ ordersTable' = Append(ordersTable, row)
          /\ trackingToken' = token
          /\ localStorage' =
                CASE ls = "ok" ->
                        [orders |-> << token >> \o localStorage.orders,
                         last_order_token |-> token]
                  [] ls = "throwsBeforeToken" ->
                        [localStorage EXCEPT
                            !.orders = << token >> \o localStorage.orders]
                  [] OTHER -> localStorage
    /\ insertCall' = Null
    /\ isSubmitting' = FALSE
    /\ isSuccess' = (ls = "ok")
    /\ formToast' = IF ls = "ok" THEN "Order confirmed!" ELSE "Order failed"
    /\ editsInFlight' = 0
    /\ UNCHANGED <<pageVars, dashVars, today, mounted, formData, agreedToTerms,
                   availableOrderTypes, isWeekend, priceShown>>

\* the catch block without setIsSubmitting(false)
insertFails_staysSubmitting ==
    /\ insertCall # Null
    /\ insertCall' = Null
    /\ formToast' = "Order failed"
    /\ isSubmitting' = isSubmitting
    /\ editsInFlight' = 0
    /\ UNCHANGED <<pageVars, dashVars, today, mounted, formData, agreedToTerms, isSuccess,
                   trackingToken, availableOrderTypes, isWeekend,
                   ordersTable, localStorage, priceShown>>

\* handleSubmit after its await, the insert having returned an error
insertFails ==
    /\ insertCall # Null
    /\ insertCall' = Null
    /\ formToast' = "Order failed"
    /\ isSubmitting' = FALSE
    /\ editsInFlight' = 0
    /\ UNCHANGED <<pageVars, dashVars, today, mounted, formData, agreedToTerms, isSuccess,
                   trackingToken, availableOrderTypes, isWeekend,
                   ordersTable, localStorage, priceShown>>

\* a reset that restores the initial form data, order type included
resetForm_initialOrderType ==
    /\ mounted
    /\ isSuccess
    /\ isSuccess' = FALSE
    /\ trackingToken' = 0
    /\ agreedToTerms' = FALSE
    /\ formData' = initialFormData
    /\ formToast' = NoToast
    /\ UNCHANGED <<pageVars, dashVars, today, mounted, isSubmitting, availableOrderTypes, isWeekend,
                   insertCall, ordersTable, localStorage, editsInFlight,
                   priceShown>>

\* resetForm, from "Place Another Order" of the success view
resetForm ==
    /\ mounted
    /\ isSuccess
    /\ isSuccess' = FALSE
    /\ trackingToken' = 0
    /\ agreedToTerms' = FALSE
    /\ formData' = [initialFormData EXCEPT
                       !.orderType = IF isWeekend THEN "same-day" ELSE "pre-order"]
    /\ formToast' = NoToast
    /\ UNCHANGED <<pageVars, dashVars, today, mounted, isSubmitting, availableOrderTypes, isWeekend,
                   insertCall, ordersTable, localStorage, editsInFlight,
                   priceShown>>

FormStep ==
    \/ MountForm
    \/ \E delta \in {-1, 1} : handlePacksChange(delta)
    \/ \E v \in NameTexts : SetName(v)
    \/ \E i \in 1 .. Len(foodTypes) : SetFoodType(foodTypes[i].value)
    \/ \E b \in BOOLEAN : SetDeliverToMe(b)
    \/ \E v \in AddressTexts : SetDeliveryAddress(v)
    \/ \E b \in BOOLEAN : SetAgreedToTerms(b)
    \/ handleSubmit
    \/ \E ls \in LocalStorageOutcomes : insertSucceeds(ls)
    \/ insertFails
    \/ resetForm

NextForm == FormStep

SpecForm == InitForm /\ [][NextForm]_vars

----------------------------------------------------------------------------
(* Pricing as a function of the form data: every selection, pack count,     *)
(* order type and delivery choice is priced by one render                   *)

FoodInputs == {"", "fried-rice", "noodles-chicken", "noodles-no-chicken",
               "jollof"}
OrderTypeInputs == {"", "same-day", "pre-order"}

InitPrice ==
    /\ DashIdle
    /\ PagesIdle
    /\ route = "/"
    /\ today \in {0}
    /\ mounted = TRUE
    /\ formData \in { [initialFormData EXCEPT !.foodType = f, !.packs = n,
                                             !.orderType = t, !.deliverToMe = d] :
                        f \in FoodInputs, n \in 1 .. 20, t \in OrderTypeInputs,
                        d \in BOOLEAN }
    /\ agreedToTerms = FALSE
    /\ isSubmitting = FALSE
    /\ isSuccess = FALSE
    /\ trackingToken = 0
    /\ availableOrderTypes = << >>
    /\ isWeekend = FALSE
    /\ insertCall = Null
    /\ ordersTable = << >>
    /\ localStorage = [orders |-> << >>, last_order_token |-> 0]
    /\ editsInFlight = 0
    /\ editsInFlight = 0
    /\ formToast = NoToast
    /\ priceShown = Null

\* one render of the form: lines 97-103
RenderPrice ==
    /\ priceShown = Null
    /\ priceShown' = [subtotal |-> subtotal(formData),
                      rushFee |-> rushFee(formData),
                      deliveryFee |-> deliveryFee(formData),
                      total |-> total(formData)]
    /\ UNCHANGED <<pageVars, dashVars, today, mounted, formData, agreedToTerms, isSubmitting,
                   isSuccess, trackingToken, availableOrderTypes, isWeekend,
                   insertCall, ordersTable, localStorage, editsInFlight,
                   formToast>>

NextPrice == RenderPrice

SpecPrice == InitPrice /\ [][NextPrice]_vars

----------------------------------------------------------------------------
(* Vendor dashboard: calendar, date range and analytics                     *)
(* (DashboardContent.tsx 104-282; pages/Dashboard.tsx has the same code)    *)

\* Dates are days of the year 2026: day 1 is Thursday 1 January. The
\* yyyy-MM-dd texts the code builds order as these numbers do.
Weekday(d) == (d + 3) % 7          \* getDay(): 0 = Sunday .. 6 = Saturday

MonthLengths == << 31, 28, 31, 30, 31, 30, 31, 31, 30, 31, 30, 31 >>

RECURSIVE MonthOf(_, _, _)
\* first and last day of the calendar month that holds day d
MonthOf(d, m, first) ==
    IF m = Len(MonthLengths) \/ d < first + MonthLengths[m]
    THEN [start |-> first, end |-> first + MonthLengths[m] - 1]
    ELSE MonthOf(d, m + 1, first + MonthLengths[m])

\* startOfWeek(now, { weekStartsOn: 1 })
startOfWeek(d) == d - ((Weekday(d) + 6) % 7)

\* endOfWeek(now, { weekStartsOn: 1 })
endOfWeek(d) == startOfWeek(d) + 6

\* a range resolution whose week starts on Sunday
getDateRangeFilter_sundayWeek(range, now, customStart, customEnd) ==
    CASE range = "today" -> [start |-> now, end |-> now]
      [] range = "month" -> MonthOf(now, 1, 1)
      [] range = "custom" -> [start |-> customStart, end |-> customEnd]
      [] OTHER -> [start |-> now - Weekday(now), end |-> now - Weekday(now) + 6]

\* getDateRangeFilter()
getDateRangeFilter(range, now, customStart, customEnd) ==
    CASE range = "today" -> [start |-> now, end |-> now]
      [] range = "week" -> [start |-> startOfWeek(now), end |-> endOfWeek(now)]
      [] range = "month" -> MonthOf(now, 1, 1)
      [] range = "custom" -> [start |-> customStart, end |-> customEnd]
      [] OTHER -> [start |-> startOfWeek(now), end |-> endOfWeek(now)]

foodTypeLabels(f) ==
    CASE f = "fried-rice" -> "Check Check Fried Rice"
      [] f = "noodles-chicken" -> "Super Loaded Noodles (With Chicken)"
      [] f = "noodles-no-chicken" -> "Super Loaded Noodles (No Chicken)"
      [] OTHER -> f

\* format(parseISO(created_at), 'EEE')
DayName(d) ==
    << "Sun", "Mon", "Tue", "Wed", "Thu", "Fri", "Sat" >>[Weekday(d) + 1]

\* a week that starts on Sunday
daysOfWeek_sundayFirst == << "Sun", "Mon", "Tue", "Wed", "Thu", "Fri", "Sat" >>

daysOfWeek == << "Mon", "Tue", "Wed", "Thu", "Fri", "Sat", "Sun" >>

\* a count that ignores the delivery method
CountMethod_everyOrder(orderData, m) == Len(orderData)

RECURSIVE CountMethod(_, _)
\* orderData.filter(o => o.delivery_method === m).length
CountMethod(orderData, m) ==
    IF orderData = << >> THEN 0
    ELSE (IF Head(orderData).delivery_method = m THEN 1 ELSE 0)
         + CountMethod(Tail(orderData), m)

\* a total that stops at the first order
SumAmount_firstOnly(orderData) ==
    IF orderData = << >> THEN 0 ELSE Head(orderData).total_amount

RECURSIVE SumAmount(_)
\* orderData.reduce((sum, o) => sum + o.total_amount, 0)
SumAmount(orderData) ==
    IF orderData = << >> THEN 0
    ELSE Head(orderData).total_amount + SumAmount(Tail(orderData))

RECURSIVE Gcd(_, _)
Gcd(a, b) == IF b = 0 THEN a ELSE Gcd(b, a % b)

\* the number n / d, kept as a fraction in lowest terms
Quotient(n, d) ==
    LET g == Gcd(n, d) IN
    IF g = 0 THEN [num |-> 0, den |-> 1] ELSE [num |-> n \div g, den |-> d \div g]

RECURSIVE IndexOfName(_, _, _)
\* position of the entry called name, 0 when there is none
IndexOfName(list, name, i) ==
    IF i > Len(list) THEN 0
    ELSE IF list[i].name = name THEN i
    ELSE IndexOfName(list, name, i + 1)

RECURSIVE FoodStats(_, _)
\* the reduce into foodStats, its keys in the order they were created
FoodStats(orderData, acc) ==
    IF orderData = << >> THEN acc
    ELSE LET order == Head(orderData)
             foodName == foodTypeLabels(order.food_type)
             at == IndexOfName(acc, foodName, 1)
             withKey == IF at = 0
                        THEN Append(acc, [name |-> foodName, count |-> 0,
                                          revenue |-> 0])
                        ELSE acc
             k == IF at = 0 THEN Len(withKey) ELSE at
         IN FoodStats(Tail(orderData),
                      [withKey EXCEPT
                          ![k].count = @ + order.number_of_packs,
                          ![k].revenue = @ + order.total_amount])

\* the value of a key that is a canonical array index ("7"), -1 otherwise
ArrayIndexKey(name) ==
    CASE name = "7" -> 7
      [] name = "12" -> 12
      [] OTHER -> -1

RECURSIVE InsertByIndexKey(_, _)
\* insert e into a list of integer-keyed entries kept in ascending key order
InsertByIndexKey(list, e) ==
    IF list = << >> THEN << e >>
    ELSE IF ArrayIndexKey(e.name) < ArrayIndexKey(Head(list).name)
         THEN << e >> \o list
         ELSE << Head(list) >> \o InsertByIndexKey(Tail(list), e)

RECURSIVE IndexKeyed(_)
IndexKeyed(list) ==
    IF list = << >> THEN << >>
    ELSE IF ArrayIndexKey(Head(list).name) >= 0
         THEN InsertByIndexKey(IndexKeyed(Tail(list)), Head(list))
         ELSE IndexKeyed(Tail(list))

RECURSIVE StringKeyed(_)
StringKeyed(list) ==
    IF list = << >> THEN << >>
    ELSE IF ArrayIndexKey(Head(list).name) < 0
         THEN << Head(list) >> \o StringKeyed(Tail(list))
         ELSE StringKeyed(Tail(list))

\* Object.entries(foodStats): integer-like keys in ascending order first,
\* then the other keys in creation order
ObjectEntries(stats) == IndexKeyed(stats) \o StringKeyed(stats)

\* an insertion that puts the new entry first whatever its count
InsertByCount_unsorted(sorted, e) == << e >> \o sorted

RECURSIVE InsertByCount(_, _)
\* insert e after every entry whose count is not smaller
InsertByCount(sorted, e) ==
    IF sorted = << >> THEN << e >>
    ELSE IF Head(sorted).count >= e.count
         THEN << Head(sorted) >> \o InsertByCount(Tail(sorted), e)
         ELSE << e >> \o sorted

RECURSIVE SortByCount(_, _)
\* .sort((a, b) => b.count - a.count): stable, descending by count
SortByCount(list, sorted) ==
    IF list = << >> THEN sorted
    ELSE SortByCount(Tail(list), InsertByCount(sorted, Head(list)))

\* .slice(0, n)
Slice(list, n) == SubSeq(list, 1, IF Len(list) < n THEN Len(list) ELSE n)

topFoodItems(orderData) ==
    Slice(SortByCount(ObjectEntries(FoodStats(orderData, << >>)), << >>), 5)

RECURSIVE IndexOfDay(_, _, _)
\* acc.find(d => d.day === day), as a position (0: not found)
IndexOfDay(list, day, i) ==
    IF i > Len(list) THEN 0
    ELSE IF list[i].day = day THEN i
    ELSE IndexOfDay(list, day, i + 1)

RECURSIVE RevenueByDay(_, _)
\* the reduce into revenueByDay
RevenueByDay(orderData, acc) ==
    IF orderData = << >> THEN acc
    ELSE LET order == Head(orderData)
             day == DayName(order.created_at)
             at == IndexOfDay(acc, day, 1)
         IN RevenueByDay(Tail(orderData),
               IF at # 0
               THEN [acc EXCEPT ![at].revenue = @ + order.total_amount,
                                ![at].orders = @ + 1]
               ELSE Append(acc, [day |-> day, revenue |-> order.total_amount,
                                 orders |-> 1]))

completeRevenueByDay(orderData) ==
    LET revenueByDay == RevenueByDay(orderData, << >>) IN
    [i \in 1 .. Len(daysOfWeek) |->
        LET at == IndexOfDay(revenueByDay, daysOfWeek[i], 1) IN
        IF at # 0 THEN revenueByDay[at]
        ELSE [day |-> daysOfWeek[i], revenue |-> 0, orders |-> 0]]

\* calculateAnalytics(orderData): the value it passes to setAnalytics
calculateAnalytics(orderData) ==
    [pickupCount |-> CountMethod(orderData, "pickup"),
     deliveryCount |-> CountMethod(orderData, "delivery"),
     totalRevenue |-> SumAmount(orderData),
     avgOrderValue |-> IF Len(orderData) > 0
                       THEN Quotient(SumAmount(orderData), Len(orderData))
                       ELSE Quotient(0, 1),
     topFoodItems |-> topFoodItems(orderData),
     revenueByDay |-> completeRevenueByDay(orderData)]

\* useState initial analytics
initialAnalytics ==
    [pickupCount |-> 0, deliveryCount |-> 0, totalRevenue |-> 0,
     avgOrderValue |-> Quotient(0, 1), topFoodItems |-> << >>,
     revenueByDay |-> << >>]

----------------------------------------------------------------------------
(* Vendor dashboard: state and handlers. The two files differ in the        *)
(* statuses, the buttons offered, the updates written and in who closes     *)
(* the dialog; variant tells them apart. Every remote call is a record in   *)
(* calls from the moment it is sent until its continuation has run.         *)

DashboardContent == "DashboardContent"     \* src/src/components/DashboardContent.tsx
Dashboard == "Dashboard"                   \* src/src/pages/Dashboard.tsx

\* Bounds of the model
MaxInFlight == 2        \* remote calls one session has in flight at a time
MaxDashOrders == 1      \* rows of the orders table

\* new Date(): Friday 6 November 2026
DashNow == 310

DateRanges == {"today", "week", "all"}

\* the form data behind the orders the table starts with
SeedForm(id) ==
    IF id = 1
    THEN [initialFormData EXCEPT !.name = "Ama", !.foodType = "fried-rice",
                                 !.packs = 2, !.orderType = "pre-order",
                                 !.deliverToMe = TRUE,
                                 !.deliveryAddress = "12 Main St"]
    ELSE [initialFormData EXCEPT !.name = "Kofi",
                                 !.foodType = "noodles-no-chicken",
                                 !.packs = 3, !.orderType = "pre-order"]

\* the row of order id as the form inserted it, the table adding the
\* identifier and the creation day (Thursday for order 1, Tuesday for order 2)
SeedOrder(id) ==
    [order_id |-> id, created_at |-> IF id = 1 THEN 309 ELSE 307,
     tracking_token |-> id] @@ insertPayload(SeedForm(id))

\* the statuses a row can start with: DashboardContent reads the rows the
\* order form inserted; pages/Dashboard.tsx reads a table whose statuses are
\* those of its OrderData type
InitialStatuses(v) ==
    IF v = DashboardContent
    THEN { [order_status |-> "pending",
            payment_status |-> "awaiting confirmation"] }
    ELSE [order_status : {"pending", "preparing", "ready", "delivered",
                          "cancelled"},
          payment_status : {"awaiting_confirmation", "paid", "failed"}]

NoCall == [kind |-> "none"]

\* the state after the first render of the sessions S over a table of the rows
\* ids, each session having room for n remote calls in flight
InitDashWith(v, S, ids, n) ==
    /\ FormIdle
    /\ PagesIdle
    /\ route = "/dashboard"
    /\ variant = v
    /\ sessions = S
    /\ nowDay = DashNow
    /\ db \in { [id \in ids |-> st[id] @@ SeedOrder(id)] :
                  st \in [ids -> InitialStatuses(v)] }
    /\ dashMounted = [s \in S |-> FALSE]
    /\ orders = [s \in S |-> << >>]
    /\ analytics = [s \in S |-> initialAnalytics]
    /\ loading = [s \in S |-> TRUE]
    /\ dateRange = [s \in S |-> "week"]
    /\ customStartDate = [s \in S |-> 0]
    /\ customEndDate = [s \in S |-> 0]
    /\ selectedOrder = [s \in S |-> Null]
    /\ actionType = [s \in S |-> NullText]
    /\ calls = [s \in S |-> [k \in 1 .. n |-> NoCall]]
    /\ dashToast = << >>
    /\ SlotsIdle

\* the buttons of one table row, Deliver shown one status early
OfferedActions_deliverWhilePreparing(v, order) ==
    IF v = DashboardContent
    THEN (IF order.payment_status = "awaiting confirmation"
          THEN {"confirmPayment"} ELSE {})
         \cup (IF order.payment_status = "confirmed paid"
                  /\ order.order_status = "pending"
               THEN {"markPreparing"} ELSE {})
         \cup (IF order.order_status = "preparing"
               THEN {"markReady", "markDelivered"} ELSE {})
         \cup (IF order.order_status = "ready" THEN {"markDelivered"} ELSE {})
    ELSE (IF order.payment_status = "awaiting_confirmation"
          THEN {"confirmPayment"} ELSE {})
         \cup (IF order.order_status \in {"preparing", "ready"}
                  /\ order.payment_status = "paid"
               THEN {"markDelivered"} ELSE {})
         \cup (IF order.order_status \in {"pending", "preparing"}
               THEN {"cancelOrder"} ELSE {})

\* buttons that leave a ready order without Mark Delivered
OfferedActions_readyHasNoButton(v, order) ==
    IF v = DashboardContent
    THEN (IF order.payment_status = "awaiting confirmation"
          THEN {"confirmPayment"} ELSE {})
         \cup (IF order.payment_status = "confirmed paid"
                  /\ order.order_status = "pending"
               THEN {"markPreparing"} ELSE {})
         \cup (IF order.order_status = "preparing" THEN {"markReady"} ELSE {})
    ELSE (IF order.payment_status = "awaiting_confirmation"
          THEN {"confirmPayment"} ELSE {})
         \cup (IF order.order_status = "ready" /\ order.payment_status = "paid"
               THEN {"markDelivered"} ELSE {})
         \cup (IF order.order_status \in {"pending", "preparing"}
               THEN {"cancelOrder"} ELSE {})

\* buttons among which Start Prep does not wait for the payment
OfferedActions_prepBeforePaid(v, order) ==
    IF v = DashboardContent
    THEN (IF order.payment_status = "awaiting confirmation"
          THEN {"confirmPayment"} ELSE {})
         \cup (IF order.order_status = "pending"
               THEN {"markPreparing"} ELSE {})
         \cup (IF order.order_status = "preparing" THEN {"markReady"} ELSE {})
         \cup (IF order.order_status = "ready" THEN {"markDelivered"} ELSE {})
    ELSE (IF order.payment_status = "awaiting_confirmation"
          THEN {"confirmPayment"} ELSE {})
         \cup (IF order.order_status = "ready" /\ order.payment_status = "paid"
               THEN {"markDelivered"} ELSE {})
         \cup (IF order.order_status \in {"pending", "preparing"}
               THEN {"cancelOrder"} ELSE {})

\* the buttons of one table row
OfferedActions(v, order) ==
    IF v = DashboardContent
    THEN (IF order.payment_status = "awaiting confirmation"
          THEN {"confirmPayment"} ELSE {})
         \cup (IF order.payment_status = "confirmed paid"
                  /\ order.order_status = "pending"
               THEN {"markPreparing"} ELSE {})
         \cup (IF order.order_status = "preparing" THEN {"markReady"} ELSE {})
         \cup (IF order.order_status = "ready" THEN {"markDelivered"} ELSE {})
    ELSE (IF order.payment_status = "awaiting_confirmation"
          THEN {"confirmPayment"} ELSE {})
         \cup (IF order.order_status = "ready" /\ order.payment_status = "paid"
               THEN {"markDelivered"} ELSE {})
         \cup (IF order.order_status \in {"pending", "preparing"}
               THEN {"cancelOrder"} ELSE {})

\* a switch whose confirmPayment also zeroes the amount
actionUpdates_zeroesAmount(v, a) ==
    IF v = DashboardContent
    THEN CASE a = "confirmPayment" -> [payment_status |-> "confirmed paid", total_amount |-> 0]
           [] a = "markPreparing" -> [order_status |-> "preparing"]
           [] a = "markReady" -> [order_status |-> "ready"]
           [] a = "markDelivered" -> [order_status |-> "delivered"]
           [] OTHER -> << >>
    ELSE CASE a = "confirmPayment" -> [payment_status |-> "paid",
                                       order_status |-> "preparing",
                                       total_amount |-> 0]
           [] a = "markDelivered" -> [order_status |-> "delivered"]
           [] a = "cancelOrder" -> [order_status |-> "cancelled"]
           [] OTHER -> << >>

\* the switch of handleOrderAction: the fields it updates
actionUpdates(v, a) ==
    IF v = DashboardContent
    THEN CASE a = "confirmPayment" -> [payment_status |-> "confirmed paid"]
           [] a = "markPreparing" -> [order_status |-> "preparing"]
           [] a = "markReady" -> [order_status |-> "ready"]
           [] a = "markDelivered" -> [order_status |-> "delivered"]
           [] OTHER -> << >>
    ELSE CASE a = "confirmPayment" -> [payment_status |-> "paid",
                                       order_status |-> "preparing"]
           [] a = "markDelivered" -> [order_status |-> "delivered"]
           [] a = "cancelOrder" -> [order_status |-> "cancelled"]
           [] OTHER -> << >>

\* the switch of handleOrderAction: the success message
actionMessage(v, a) ==
    IF v = DashboardContent
    THEN CASE a = "confirmPayment" -> "Payment confirmed"
           [] a = "markPreparing" -> "Order marked as preparing"
           [] a = "markReady" -> "Order marked as ready"
           [] a = "markDelivered" -> "Order marked as delivered"
           [] OTHER -> ""
    ELSE CASE a = "confirmPayment" ->
                  "Payment confirmed and order moved to preparation"
           [] a = "markDelivered" -> "Order marked as delivered"
           [] a = "cancelOrder" -> "Order cancelled"
           [] OTHER -> ""

Toast(s, title, description) ==
    [session |-> s, title |-> title, description |-> description]

\* the query fetchOrders builds from the state of the render it belongs to
OrdersQuery(s) ==
    LET r == getDateRangeFilter(dateRange[s], nowDay, customStartDate[s],
                                customEndDate[s])
    IN [filtered |-> dateRange[s] # "all", start |-> r.start, end |-> r.end]

\* fetchOrders up to its await
FetchCall(query, fromAction) ==
    [kind |-> "fetch", phase |-> "sent", query |-> query, data |-> << >>,
     fromAction |-> fromAction]

HasFreeSlot(s) == \E k \in DOMAIN calls[s] : calls[s][k] = NoCall

FreeSlot(s) ==
    CHOOSE k \in DOMAIN calls[s] :
        /\ calls[s][k] = NoCall
        /\ \A j \in 1 .. k - 1 : calls[s][j] # NoCall

\* the rows a query matches
Matching(query) ==
    { id \in DOMAIN db :
        ~query.filtered \/ (/\ db[id].created_at >= query.start
                            /\ db[id].created_at <= query.end) }

\* a filtered query needs two dates: `${start}T00:00:00` with an empty custom
\* date (0 here) is no timestamp, and the store answers with an error
QueryValid(query) == ~query.filtered \/ (query.start # 0 /\ query.end # 0)

RECURSIVE NewestFirst(_)
\* .order('created_at', { ascending: false })
NewestFirst(ids) ==
    IF ids = {} THEN << >>
    ELSE LET top == CHOOSE id \in ids :
                        \A other \in ids :
                            db[other].created_at <= db[id].created_at
         IN << db[top] >> \o NewestFirst(ids \ {top})

\* the dialog of an order action is open
DialogOpen(s) == selectedOrder[s] # Null /\ actionType[s] # NullText

\* the page behind the dialogs takes clicks
PageUsable(s) ==
    s \in sessions /\ dashMounted[s] /\ ~loading[s] /\ ~DialogOpen(s)

\* useEffect(() => { fetchOrders(); fetchSlots(); }, [...]) after the first
\* render (the slots are kept apart from the orders and are not modelled
\* here)
MountDashboard(s) ==
    /\ s \in sessions
    /\ ~dashMounted[s]
    /\ dashMounted' = [dashMounted EXCEPT ![s] = TRUE]
    /\ calls' = [calls EXCEPT ![s][FreeSlot(s)] = FetchCall(OrdersQuery(s), FALSE)]
    /\ dashToast' = << >>
    /\ UNCHANGED <<pageVars, formVars, slotVars, variant, sessions, nowDay, db, orders, analytics, loading,
                   dateRange, customStartDate, customEndDate, selectedOrder,
                   actionType>>

\* the Refresh button: onClick={fetchOrders}
RefreshOrders(s) ==
    /\ PageUsable(s)
    /\ HasFreeSlot(s)
    /\ calls' = [calls EXCEPT ![s][FreeSlot(s)] = FetchCall(OrdersQuery(s), FALSE)]
    /\ dashToast' = << >>
    /\ UNCHANGED <<pageVars, formVars, slotVars, variant, sessions, nowDay, db, dashMounted, orders,
                   analytics, loading, dateRange, customStartDate,
                   customEndDate, selectedOrder, actionType>>

\* onValueChange={setDateRange}, and the effect that follows the change
SetDateRange(s, r) ==
    /\ PageUsable(s)
    /\ HasFreeSlot(s)
    /\ dateRange[s] # r
    /\ dateRange' = [dateRange EXCEPT ![s] = r]
    /\ LET q == getDateRangeFilter(r, nowDay, customStartDate[s],
                                   customEndDate[s])
       IN calls' = [calls EXCEPT ![s][FreeSlot(s)] =
                       FetchCall([filtered |-> r # "all", start |-> q.start,
                                  end |-> q.end], FALSE)]
    /\ dashToast' = << >>
    /\ UNCHANGED <<pageVars, formVars, slotVars, variant, sessions, nowDay, db, dashMounted, orders,
                   analytics, loading, customStartDate, customEndDate,
                   selectedOrder, actionType>>

\* onClick of a button of row i: setSelectedOrder(order); setActionType(a)
OpenAction(s, i, a) ==
    /\ PageUsable(s)
    /\ i \in 1 .. Len(orders[s])
    /\ a \in OfferedActions(variant, orders[s][i])
    /\ selectedOrder' = [selectedOrder EXCEPT ![s] = orders[s][i]]
    /\ actionType' = [actionType EXCEPT ![s] = a]
    /\ dashToast' = << >>
    /\ UNCHANGED <<pageVars, formVars, slotVars, variant, sessions, nowDay, db, dashMounted, orders,
                   analytics, loading, dateRange, customStartDate,
                   customEndDate, calls>>

\* Cancel of a dialog, or onOpenChange(false)
CloseDialog(s) ==
    /\ s \in sessions
    /\ dashMounted[s]
    /\ DialogOpen(s)
    /\ selectedOrder' = [selectedOrder EXCEPT ![s] = Null]
    /\ actionType' = [actionType EXCEPT ![s] = NullText]
    /\ dashToast' = << >>
    /\ UNCHANGED <<pageVars, formVars, slotVars, variant, sessions, nowDay, db, dashMounted, orders,
                   analytics, loading, dateRange, customStartDate,
                   customEndDate, calls>>

\* handleOrderAction up to its await, from the confirm button of the dialog:
\* the update is sent for the order and action of this render
handleOrderAction(s) ==
    /\ s \in sessions
    /\ dashMounted[s]
    /\ DialogOpen(s)
    /\ HasFreeSlot(s)
    /\ IF variant = DashboardContent /\ actionType[s] = "cancelOrder"
       THEN /\ dashToast' = << Toast(s, "Error",
                                 "Cancel feature not implemented in database") >>
            /\ UNCHANGED calls
       ELSE /\ calls' = [calls EXCEPT ![s][FreeSlot(s)] =
                  [kind |-> "update", phase |-> "sent",
                   order_id |-> selectedOrder[s].order_id,
                   updates |-> actionUpdates(variant, actionType[s]),
                   message |-> actionMessage(variant, actionType[s]),
                   query |-> OrdersQuery(s)]]
            /\ dashToast' = << >>
    /\ UNCHANGED <<pageVars, formVars, slotVars, variant, sessions, nowDay, db, dashMounted, orders,
                   analytics, loading, dateRange, customStartDate,
                   customEndDate, selectedOrder, actionType>>

\* the row after .update(updates); order_id stands for the key of the row,
\* which pages/Dashboard.tsx reads as id
applyUpdates(row, updates) == updates @@ row

\* the table writes the fields even when it returns an error
StoreUpdate_writesOnError(s, k, ok) ==
    /\ s \in sessions
    /\ k \in DOMAIN calls[s]
    /\ calls[s][k].kind = "update"
    /\ calls[s][k].phase = "sent"
    /\ IF ok
       THEN /\ db' = [id \in DOMAIN db |->
                        IF id = calls[s][k].order_id
                        THEN applyUpdates(db[id], calls[s][k].updates)
                        ELSE db[id]]
            /\ calls' = [calls EXCEPT ![s][k].phase = "ok"]
       ELSE /\ db' = [id \in DOMAIN db |->
                        IF id = calls[s][k].order_id
                        THEN applyUpdates(db[id], calls[s][k].updates)
                        ELSE db[id]]
            /\ calls' = [calls EXCEPT ![s][k].phase = "error"]
    /\ dashToast' = << >>
    /\ UNCHANGED <<pageVars, formVars, slotVars, variant, sessions, nowDay, dashMounted, orders, analytics,
                   loading, dateRange, customStartDate, customEndDate,
                   selectedOrder, actionType>>

\* the table serves .update(updates).eq('order_id', id): it writes the
\* fields, or returns an error and writes nothing
StoreUpdate(s, k, ok) ==
    /\ s \in sessions
    /\ k \in DOMAIN calls[s]
    /\ calls[s][k].kind = "update"
    /\ calls[s][k].phase = "sent"
    /\ IF ok
       THEN /\ db' = [id \in DOMAIN db |->
                        IF id = calls[s][k].order_id
                        THEN applyUpdates(db[id], calls[s][k].updates)
                        ELSE db[id]]
            /\ calls' = [calls EXCEPT ![s][k].phase = "ok"]
       ELSE /\ UNCHANGED db
            /\ calls' = [calls EXCEPT ![s][k].phase = "error"]
    /\ dashToast' = << >>
    /\ UNCHANGED <<pageVars, formVars, slotVars, variant, sessions, nowDay, dashMounted, orders, analytics,
                   loading, dateRange, customStartDate, customEndDate,
                   selectedOrder, actionType>>

\* handleOrderAction after the await of the update: on success the toast and
\* fetchOrders of the same render; on error the catch block, and in
\* pages/Dashboard.tsx the onClick that goes on to close the dialog
UpdateReturns(s, k) ==
    /\ s \in sessions
    /\ k \in DOMAIN calls[s]
    /\ calls[s][k].kind = "update"
    /\ calls[s][k].phase \in {"ok", "error"}
    /\ IF calls[s][k].phase = "ok"
       THEN /\ dashToast' = << Toast(s, "Success", calls[s][k].message) >>
            /\ calls' = [calls EXCEPT ![s][k] =
                            FetchCall(calls[s][k].query, TRUE)]
            /\ UNCHANGED <<selectedOrder, actionType>>
       ELSE /\ dashToast' = << Toast(s, "Error", "Failed to update order") >>
            /\ calls' = [calls EXCEPT ![s][k] = NoCall]
            /\ IF variant = Dashboard
               THEN /\ selectedOrder' = [selectedOrder EXCEPT ![s] = Null]
                    /\ actionType' = [actionType EXCEPT ![s] = NullText]
               ELSE UNCHANGED <<selectedOrder, actionType>>
    /\ UNCHANGED <<pageVars, formVars, slotVars, variant, sessions, nowDay, db, dashMounted, orders,
                   analytics, loading, dateRange, customStartDate,
                   customEndDate>>

\* the table serves the select of fetchOrders, or returns an error
StoreSelect(s, k, ok) ==
    /\ s \in sessions
    /\ k \in DOMAIN calls[s]
    /\ calls[s][k].kind = "fetch"
    /\ calls[s][k].phase = "sent"
    /\ LET served == ok /\ QueryValid(calls[s][k].query)
       IN calls' = [calls EXCEPT
                    ![s][k].phase = IF served THEN "ok" ELSE "error",
                    ![s][k].data = IF served
                                   THEN NewestFirst(Matching(calls[s][k].query))
                                   ELSE << >>]
    /\ dashToast' = << >>
    /\ UNCHANGED <<pageVars, formVars, slotVars, variant, sessions, nowDay, db, dashMounted, orders,
                   analytics, loading, dateRange, customStartDate,
                   customEndDate, selectedOrder, actionType>>

\* a fetch whose continuation replaces the list without recomputing the
\* analytics
FetchReturns_keepsAnalytics(s, k) ==
    /\ s \in sessions
    /\ k \in DOMAIN calls[s]
    /\ calls[s][k].kind = "fetch"
    /\ calls[s][k].phase \in {"ok", "error"}
    /\ IF calls[s][k].phase = "ok"
       THEN /\ orders' = [orders EXCEPT ![s] = calls[s][k].data]
            /\ dashToast' = << >>
            /\ UNCHANGED analytics
       ELSE /\ dashToast' = << Toast(s, "Error", "Failed to load orders") >>
            /\ UNCHANGED <<orders, analytics>>
    /\ loading' = [loading EXCEPT ![s] = FALSE]
    /\ IF calls[s][k].fromAction
       THEN /\ selectedOrder' = [selectedOrder EXCEPT ![s] = Null]
            /\ actionType' = [actionType EXCEPT ![s] = NullText]
       ELSE UNCHANGED <<selectedOrder, actionType>>
    /\ calls' = [calls EXCEPT ![s][k] = NoCall]
    /\ UNCHANGED <<pageVars, formVars, slotVars, variant, sessions, nowDay, db, dashMounted, dateRange,
                   customStartDate, customEndDate>>

\* fetchOrders whose catch block empties the list
FetchReturns_clearsOnError(s, k) ==
    /\ s \in sessions
    /\ k \in DOMAIN calls[s]
    /\ calls[s][k].kind = "fetch"
    /\ calls[s][k].phase \in {"ok", "error"}
    /\ IF calls[s][k].phase = "ok"
       THEN /\ orders' = [orders EXCEPT ![s] = calls[s][k].data]
            /\ analytics' = [analytics EXCEPT
                                ![s] = calculateAnalytics(calls[s][k].data)]
            /\ dashToast' = << >>
       ELSE /\ dashToast' = << Toast(s, "Error", "Failed to load orders") >>
            /\ orders' = [orders EXCEPT ![s] = << >>]
            /\ UNCHANGED analytics
    /\ loading' = [loading EXCEPT ![s] = FALSE]
    /\ IF calls[s][k].fromAction
       THEN /\ selectedOrder' = [selectedOrder EXCEPT ![s] = Null]
            /\ actionType' = [actionType EXCEPT ![s] = NullText]
       ELSE UNCHANGED <<selectedOrder, actionType>>
    /\ calls' = [calls EXCEPT ![s][k] = NoCall]
    /\ UNCHANGED <<pageVars, formVars, slotVars, variant, sessions, nowDay, db, dashMounted, dateRange,
                   customStartDate, customEndDate>>

\* fetchOrders after its await: setOrders and calculateAnalytics, or the
\* catch block; finally setLoading(false); and, when handleOrderAction
\* awaited it, the dialog is closed
FetchReturns(s, k) ==
    /\ s \in sessions
    /\ k \in DOMAIN calls[s]
    /\ calls[s][k].kind = "fetch"
    /\ calls[s][k].phase \in {"ok", "error"}
    /\ IF calls[s][k].phase = "ok"
       THEN /\ orders' = [orders EXCEPT ![s] = calls[s][k].data]
            /\ analytics' = [analytics EXCEPT
                                ![s] = calculateAnalytics(calls[s][k].data)]
            /\ dashToast' = << >>
       ELSE /\ dashToast' = << Toast(s, "Error", "Failed to load orders") >>
            /\ UNCHANGED <<orders, analytics>>
    /\ loading' = [loading EXCEPT ![s] = FALSE]
    /\ IF calls[s][k].fromAction
       THEN /\ selectedOrder' = [selectedOrder EXCEPT ![s] = Null]
            /\ actionType' = [actionType EXCEPT ![s] = NullText]
       ELSE UNCHANGED <<selectedOrder, actionType>>
    /\ calls' = [calls EXCEPT ![s][k] = NoCall]
    /\ UNCHANGED <<pageVars, formVars, slotVars, variant, sessions, nowDay, db, dashMounted, dateRange,
                   customStartDate, customEndDate>>

\* Bound of the model: the sessions that can be open
MaxSessions == 2

\* Bounds of the model: rows of the table and remote calls in flight when the
\* rows are told apart
TableRows == 2
TableInFlight == 1

\* the positions a row can have in the list
RowIndexes == 1 .. TableRows

SessionIds == 1 .. MaxSessions

DashStep ==
    \/ \E s \in SessionIds : MountDashboard(s)
    \/ \E s \in SessionIds : RefreshOrders(s)
    \/ \E s \in SessionIds, i \in RowIndexes,
           a \in {"confirmPayment", "markPreparing", "markReady",
                  "markDelivered", "cancelOrder"} : OpenAction(s, i, a)
    \/ \E s \in SessionIds : CloseDialog(s)
    \/ \E s \in SessionIds : handleOrderAction(s)
    \/ \E s \in SessionIds, k \in 1 .. MaxInFlight, ok \in BOOLEAN :
          StoreUpdate(s, k, ok)
    \/ \E s \in SessionIds, k \in 1 .. MaxInFlight : UpdateReturns(s, k)
    \/ \E s \in SessionIds, k \in 1 .. MaxInFlight, ok \in BOOLEAN :
          StoreSelect(s, k, ok)
    \/ \E s \in SessionIds, k \in 1 .. MaxInFlight : FetchReturns(s, k)

NextDash == DashStep

\* the same with the date range select in use
\* onChange of the custom start date input, rendered while the range is
\* "custom"; the effect on [dateRange, customStartDate, customEndDate] fetches
setCustomStartDate(s, d) ==
    /\ PageUsable(s)
    /\ HasFreeSlot(s)
    /\ dateRange[s] = "custom"
    /\ customStartDate[s] # d
    /\ customStartDate' = [customStartDate EXCEPT ![s] = d]
    /\ LET q == getDateRangeFilter("custom", nowDay, d, customEndDate[s])
       IN calls' = [calls EXCEPT ![s][FreeSlot(s)] =
                       FetchCall([filtered |-> TRUE, start |-> q.start,
                                  end |-> q.end], FALSE)]
    /\ dashToast' = << >>
    /\ UNCHANGED <<pageVars, formVars, slotVars, variant, sessions, nowDay, db, dashMounted, orders,
                   analytics, loading, dateRange, customEndDate,
                   selectedOrder, actionType>>

\* onChange of the custom end date input
setCustomEndDate(s, d) ==
    /\ PageUsable(s)
    /\ HasFreeSlot(s)
    /\ dateRange[s] = "custom"
    /\ customEndDate[s] # d
    /\ customEndDate' = [customEndDate EXCEPT ![s] = d]
    /\ LET q == getDateRangeFilter("custom", nowDay, customStartDate[s], d)
       IN calls' = [calls EXCEPT ![s][FreeSlot(s)] =
                       FetchCall([filtered |-> TRUE, start |-> q.start,
                                  end |-> q.end], FALSE)]
    /\ dashToast' = << >>
    /\ UNCHANGED <<pageVars, formVars, slotVars, variant, sessions, nowDay, db, dashMounted, orders,
                   analytics, loading, dateRange, customStartDate,
                   selectedOrder, actionType>>

RangeStep == \E s \in SessionIds, r \in DateRanges : SetDateRange(s, r)

NextDashRange == DashStep \/ RangeStep

\* DashboardContent in one session
InitContentSingle ==
    InitDashWith(DashboardContent, {1}, 1 .. MaxDashOrders, MaxInFlight)

SpecContentSingle == InitContentSingle /\ [][NextDash]_vars

\* Bound of the model: remote calls in flight per session when two sessions
\* are open
PairInFlight == 1

\* DashboardContent in one session: the first render mounts the component,
\* every remote call is answered, and the browser runs every continuation
\* whose answer has arrived
SpecContentLive ==
    /\ InitContentSingle
    /\ [][NextDash]_vars
    /\ WF_vars(MountDashboard(1))
    /\ WF_vars(\E k \in 1 .. MaxInFlight, ok \in BOOLEAN : StoreUpdate(1, k, ok))
    /\ WF_vars(\E k \in 1 .. MaxInFlight, ok \in BOOLEAN : StoreSelect(1, k, ok))
    /\ WF_vars(\E k \in 1 .. MaxInFlight : UpdateReturns(1, k))
    /\ WF_vars(\E k \in 1 .. MaxInFlight : FetchReturns(1, k))

\* DashboardContent in two sessions over the same table
InitContentPair ==
    InitDashWith(DashboardContent, {1, 2}, 1 .. MaxDashOrders, PairInFlight)

SpecContentPair == InitContentPair /\ [][NextDash]_vars

\* either dashboard file, in one session
InitEitherDashboard ==
    \/ InitDashWith(DashboardContent, {1}, 1 .. MaxDashOrders, MaxInFlight)
    \/ InitDashWith(Dashboard, {1}, 1 .. MaxDashOrders, MaxInFlight)

SpecEitherDashboard == InitEitherDashboard /\ [][NextDash]_vars

\* pages/Dashboard.tsx in one session, over orders that are pending and await
\* the confirmation of their payment
InitDashboardPending ==
    /\ InitDashWith(Dashboard, {1}, 1 .. MaxDashOrders, MaxInFlight)
    /\ \A id \in DOMAIN db :
          /\ db[id].order_status = "pending"
          /\ db[id].payment_status = "awaiting_confirmation"

SpecDashboardPending == InitDashboardPending /\ [][NextDash]_vars

\* DashboardContent in one session, the date range select in use
SpecContentRange == InitContentSingle /\ [][NextDashRange]_vars

\* DashboardContent in one session, the date range select in use and every
\* fetch answered with the rows it asked for
NextRangeRace ==
    \/ MountDashboard(1)
    \/ RefreshOrders(1)
    \/ \E r \in DateRanges : SetDateRange(1, r)
    \/ \E k \in 1 .. MaxInFlight : StoreSelect(1, k, TRUE)
    \/ \E k \in 1 .. MaxInFlight : FetchReturns(1, k)

SpecRangeRace == InitContentSingle /\ [][NextRangeRace]_vars

\* either dashboard file, in one session over a table of several rows
InitEitherTable ==
    \/ InitDashWith(DashboardContent, {1}, 1 .. TableRows, TableInFlight)
    \/ InitDashWith(Dashboard, {1}, 1 .. TableRows, TableInFlight)

SpecEitherTable == InitEitherTable /\ [][NextDash]_vars

\* Bound of the model
RangeInFlight == 1      \* fetches in flight while the ranges are resolved

\* new Date() is any day of 2026, a year of 365 days
YearLength == 365

\* every entry of the range select, and the dates typed as custom bounds
\* (0: the input is empty)
AllDateRanges == {"today", "week", "month", "custom", "all"}
CustomDates == {0, 304, 305}

\* two orders, created on Saturday 31 October and on Sunday 1 November
RangeTable ==
    [id \in 1 .. 2 |->
        [SeedOrder(id) EXCEPT !.created_at = IF id = 1 THEN 304 ELSE 305]]

\* DashboardContent opened on any day of the year
InitDateRange ==
    /\ FormIdle
    /\ PagesIdle
    /\ route = "/dashboard"
    /\ variant = DashboardContent
    /\ sessions = {1}
    /\ nowDay \in 1 .. YearLength
    /\ db = RangeTable
    /\ dashMounted = [s \in {1} |-> FALSE]
    /\ orders = [s \in {1} |-> << >>]
    /\ analytics = [s \in {1} |-> initialAnalytics]
    /\ loading = [s \in {1} |-> TRUE]
    /\ dateRange = [s \in {1} |-> "week"]
    /\ customStartDate = [s \in {1} |-> 0]
    /\ customEndDate = [s \in {1} |-> 0]
    /\ selectedOrder = [s \in {1} |-> Null]
    /\ actionType = [s \in {1} |-> NullText]
    /\ calls = [s \in {1} |-> [k \in 1 .. RangeInFlight |-> NoCall]]
    /\ dashToast = << >>
    /\ SlotsIdle

NextDateRange ==
    \/ MountDashboard(1)
    \/ \E r \in AllDateRanges : SetDateRange(1, r)
    \/ \E d \in CustomDates : setCustomStartDate(1, d)
    \/ \E d \in CustomDates : setCustomEndDate(1, d)
    \/ \E k \in 1 .. RangeInFlight, ok \in BOOLEAN : StoreSelect(1, k, ok)
    \/ \E k \in 1 .. RangeInFlight : FetchReturns(1, k)

SpecDateRange == InitDateRange /\ [][NextDateRange]_vars

\* Bound of the model
MaxListLen == 6         \* orders in a fetched list

\* the rows a fetched list is made of: the three catalog foods and three
\* food_type values without a label (two of them array-index keys), on
\* six of the seven weekdays, with both delivery methods
AnalyticsOrder(i) ==
    LET f == << <<"fried-rice", 2, 50, 306, "pickup">>,
                <<"fried-rice", 1, 33, 307, "delivery">>,
                <<"noodles-chicken", 3, 90, 306, "delivery">>,
                <<"noodles-no-chicken", 1, 25, 312, "pickup">>,
                <<"7", 2, 40, 308, "pickup">>,
                <<"12", 4, 80, 311, "delivery">>,
                <<"jollof", 1, 20, 309, "pickup">> >>[i]
    IN [SeedOrder(1) EXCEPT !.order_id = i,
                            !.tracking_token = i,
                            !.food_type = f[1],
                            !.number_of_packs = f[2],
                            !.total_amount = f[3],
                            !.created_at = f[4],
                            !.delivery_method = f[5],
                            !.deliver_to_me = (f[5] = "delivery")]

AnalyticsOrders == { AnalyticsOrder(i) : i \in 1 .. 7 }

OrderLists == UNION { [1 .. n -> AnalyticsOrders] : n \in 0 .. MaxListLen }

\* a dashboard whose first fetch, of every order, has been served with some
\* list and has not returned yet
InitAnalytics ==
    /\ FormIdle
    /\ PagesIdle
    /\ route = "/dashboard"
    /\ variant \in {DashboardContent, Dashboard}
    /\ sessions = {1}
    /\ nowDay = DashNow
    /\ db = << >>
    /\ dashMounted = [s \in {1} |-> TRUE]
    /\ orders = [s \in {1} |-> << >>]
    /\ analytics = [s \in {1} |-> initialAnalytics]
    /\ loading = [s \in {1} |-> TRUE]
    /\ dateRange = [s \in {1} |-> "all"]
    /\ customStartDate = [s \in {1} |-> 0]
    /\ customEndDate = [s \in {1} |-> 0]
    /\ selectedOrder = [s \in {1} |-> Null]
    /\ actionType = [s \in {1} |-> NullText]
    /\ \E list \in OrderLists :
          calls = [s \in {1} |->
                     << [kind |-> "fetch", phase |-> "ok",
                         query |-> [filtered |-> FALSE, start |-> 0, end |-> 0],
                         data |-> list, fromAction |-> FALSE] >>]
    /\ dashToast = << >>
    /\ SlotsIdle

NextAnalytics == \E k \in 1 .. 1 : FetchReturns(1, k)

\* calculateAnalytics applied to every list of at most MaxListLen orders
SpecAnalytics == InitAnalytics /\ [][NextAnalytics]_vars

----------------------------------------------------------------------------
(* Vendor login (src/src/pages/Login.tsx). Texts are sequences of           *)
(* characters, so that trim, length and the e-mail pattern are computed.    *)

\* Inputs the vendor can type
LoginEmails ==
    { << >>,
      << " " >>,
      << "a", "@", "b", ".", "c" >>,
      << "a", "b", ".", "c" >>,
      << "a", "@", "b", "c" >>,
      << "@", "b", ".", "c" >>,
      << "a", "@", "b", "." >>,
      << "a", "@", " ", ".", "c" >>,
      << "x", " ", "a", "@", "b", ".", "c" >> }

LoginPasswords ==
    { << >>,
      << "1", "2", "3", "4", "5" >>,
      << "1", "2", "3", "4", "5", "6" >> }

\* the e-mails localStorage can hold when the page opens
RememberedEmails == { << >>, << "a", "@", "b", ".", "c" >> }

\* \S of the pattern
NonSpace(c) == c # " "

\* email.trim() is not empty
HasText(e) == \E i \in 1 .. Len(e) : NonSpace(e[i])

\* /\S+@\S+\.\S+/.test(e): somewhere in e a non-blank character, "@", one
\* or more non-blank characters, ".", a non-blank character
EmailPatternTest(e) ==
    \E i \in 1 .. Len(e) : \E j \in 1 .. Len(e) :
        /\ e[i] = "@"
        /\ i > 1
        /\ NonSpace(e[i - 1])
        /\ j > i + 1
        /\ e[j] = "."
        /\ \A m \in (i + 1) .. (j - 1) : NonSpace(e[m])
        /\ j < Len(e)
        /\ NonSpace(e[j + 1])

\* validateForm(): the errors it sets
validateForm(fd) ==
    [email |-> IF ~HasText(fd.email) THEN "Email is required"
               ELSE IF ~EmailPatternTest(fd.email)
                    THEN "Please enter a valid email"
               ELSE "",
     password |-> IF fd.password = << >> THEN "Password is required"
                  ELSE IF Len(fd.password) < 6
                       THEN "Password must be at least 6 characters"
                  ELSE ""]

NoLoginErrors == [email |-> "", password |-> ""]

\* the login page alone, localStorage holding a remembered e-mail or none
InitLogin ==
    /\ route = "/login"
    /\ DashIdle
    /\ FormIdle
    /\ ViewIdle
    /\ loginOpen = FALSE
    /\ loginForm = [email |-> << >>, password |-> << >>, rememberMe |-> FALSE]
    /\ loginLoading = FALSE
    /\ loginErrors = NoLoginErrors
    /\ loginCall = Null
    /\ loginToast = << >>
    /\ vendor_email \in RememberedEmails
    /\ navigateTimer = FALSE

\* useState(() => {...}) of the first render: the remembered e-mail is loaded
MountLogin ==
    /\ route = "/login"
    /\ ~loginOpen
    /\ loginOpen' = TRUE
    /\ loginForm' = IF vendor_email # << >>
                    THEN [loginForm EXCEPT !.email = vendor_email,
                                           !.rememberMe = TRUE]
                    ELSE loginForm
    /\ loginToast' = << >>
    /\ UNCHANGED <<formVars, dashVars, viewVars, route, loginLoading, loginErrors,
                   loginCall, vendor_email, navigateTimer>>

\* handleInputChange(field, value): the inputs stay enabled while loading
handleInputChange(field, value) ==
    /\ loginOpen
    /\ loginForm[field] # value
    /\ loginForm' = [loginForm EXCEPT ![field] = value]
    /\ loginErrors' = IF field \in DOMAIN loginErrors
                      THEN [loginErrors EXCEPT ![field] = ""]
                      ELSE loginErrors
    /\ loginToast' = << >>
    /\ UNCHANGED <<formVars, dashVars, viewVars, route, loginOpen, loginLoading,
                   loginCall, vendor_email, navigateTimer>>

\* handleSubmit of the login form up to its await: validateForm, and when it
\* passes setLoading(true) and signInWithPassword is sent; the submit button
\* is disabled while loading
LoginSubmit ==
    /\ loginOpen
    /\ ~loginLoading
    /\ loginErrors' = validateForm(loginForm)
    /\ IF validateForm(loginForm) # NoLoginErrors
       THEN UNCHANGED <<loginLoading, loginCall>>
       ELSE /\ loginLoading' = TRUE
            /\ loginCall' = [email |-> loginForm.email,
                             password |-> loginForm.password,
                             rememberMe |-> loginForm.rememberMe]
    /\ loginToast' = << >>
    /\ UNCHANGED <<formVars, dashVars, viewVars, route, loginOpen, loginForm,
                   vendor_email, navigateTimer>>

\* what signInWithPassword can answer
SignInOutcomes ==
    {"ok", "Invalid login credentials", "Email not confirmed", "other"}

\* whether the localStorage call of the success path throws
StorageOutcomes == {"ok", "throws"}

\* the description of the "Login failed" toast
loginFailureText(outcome) ==
    CASE outcome = "Invalid login credentials" -> "Invalid email or password"
      [] outcome = "Email not confirmed" ->
             "Please confirm your email address first"
      [] OTHER -> "Something went wrong. Please try again."

\* handleSubmit of the login form after its await: on success the remember-me
\* preference is saved, the welcome toast issued and the navigation timer
\* set; the catch block reports any error; finally setLoading(false)
SignInReturns(outcome, ls) ==
    /\ loginCall # Null
    /\ loginCall' = Null
    /\ loginLoading' = FALSE
    /\ IF outcome = "ok" /\ ls = "ok"
       THEN /\ vendor_email' = IF loginCall.rememberMe THEN loginCall.email
                                ELSE << >>
            /\ loginToast' = << [title |-> "Welcome back!",
                                 description |->
                  "Successfully logged in to your vendor dashboard."] >>
            /\ navigateTimer' = TRUE
       ELSE /\ loginToast' = << [title |-> "Login failed",
                                 description |-> loginFailureText(outcome)] >>
            /\ UNCHANGED <<vendor_email, navigateTimer>>
    /\ UNCHANGED <<formVars, dashVars, viewVars, route, loginOpen, loginForm,
                   loginErrors>>

\* the timer fires: navigate("/dashboard") leaves the page, whose state is
\* discarded
NavigateToDashboard ==
    /\ loginOpen
    /\ navigateTimer
    /\ loginCall = Null
    /\ navigateTimer' = FALSE
    /\ loginOpen' = FALSE
    /\ loginForm' = [email |-> << >>, password |-> << >>, rememberMe |-> FALSE]
    /\ loginErrors' = NoLoginErrors
    /\ loginToast' = << >>
    /\ route' = "/dashboard"
    /\ UNCHANGED <<formVars, dashVars, viewVars, loginLoading, loginCall,
                   vendor_email>>

LoginStep ==
    \/ MountLogin
    \/ \E v \in LoginEmails : handleInputChange("email", v)
    \/ \E v \in LoginPasswords : handleInputChange("password", v)
    \/ \E v \in BOOLEAN : handleInputChange("rememberMe", v)
    \/ LoginSubmit
    \/ \E outcome \in SignInOutcomes, ls \in StorageOutcomes :
          SignInReturns(outcome, ls)
    \/ NavigateToDashboard

SpecLogin == InitLogin /\ [][LoginStep]_vars

----------------------------------------------------------------------------
(* Order tracking (ViewOrder, src/unnamed/part_000). The token typed is a   *)
(* sequence of characters; every lookup is a record in lookups from the     *)
(* moment it is sent until its continuation has run.                        *)

\* Bounds of the model
MaxLookups == 2         \* lookups in flight at a time
ViewRows == 2           \* rows of the orders table

\* Inputs the customer can type
TokenTexts ==
    { << >>, << " " >>, << "1" >>, << "2", " " >>, << "9" >> }

RECURSIVE TrimStart(_)
TrimStart(t) ==
    IF t # << >> /\ Head(t) = " " THEN TrimStart(Tail(t)) ELSE t

RECURSIVE TrimEnd(_)
TrimEnd(t) ==
    IF t # << >> /\ t[Len(t)] = " "
    THEN TrimEnd(SubSeq(t, 1, Len(t) - 1))
    ELSE t

\* String.prototype.trim on a sequence of characters
TrimText(t) == TrimEnd(TrimStart(t))

\* the text of a tracking token of the table
TokenText(n) == << << "1", "2", "3", "4", "5", "6", "7", "8", "9" >>[n] >>

\* the summary kept in "recent_orders"
orderSummary(data) ==
    [order_id |-> data.order_id,
     tracking_token |-> data.tracking_token,
     customer_name |-> data.customer_name,
     food_type |-> data.food_type,
     status |-> data.order_status,
     created_at |-> data.created_at]

\* a filter that drops nothing
WithoutToken_keepsEvery(list, token) == list

RECURSIVE WithoutToken(_, _)
\* recentOrders.filter(o => o.tracking_token !== token)
WithoutToken(list, token) ==
    IF list = << >> THEN << >>
    ELSE IF Head(list).tracking_token # token
         THEN << Head(list) >> \o WithoutToken(Tail(list), token)
         ELSE WithoutToken(Tail(list), token)

\* the rows the tracking page starts over
ViewTable ==
    [id \in 1 .. ViewRows |->
        [order_status |-> "pending",
         payment_status |-> "awaiting confirmation"] @@ SeedOrder(id)]

\* the tracking page alone, over a table of placed orders
InitView ==
    /\ route = "/view-order"
    /\ FormIdle
    /\ LoginIdle
    /\ variant = "none"
    /\ sessions = {}
    /\ nowDay = DashNow
    /\ db = ViewTable
    /\ dashMounted = << >>
    /\ orders = << >>
    /\ analytics = << >>
    /\ loading = << >>
    /\ dateRange = << >>
    /\ customStartDate = << >>
    /\ customEndDate = << >>
    /\ selectedOrder = << >>
    /\ actionType = << >>
    /\ calls = << >>
    /\ dashToast = << >>
    /\ SlotsIdle
    /\ viewOpen = TRUE
    /\ viewToken = << >>
    /\ viewOrder = Null
    /\ viewLoading = FALSE
    /\ viewError = ""
    /\ lookups = [k \in 1 .. MaxLookups |-> NoCall]
    /\ viewToast = << >>
    /\ recent_orders \in { << >>, << orderSummary(ViewTable[2]) >> }

\* onChange of the token input: setTrackingToken(e.target.value)
setTrackingToken(v) ==
    /\ viewOpen
    /\ viewToken # v
    /\ viewToken' = v
    /\ viewToast' = << >>
    /\ UNCHANGED <<formVars, dashVars, loginVars, route, viewOpen, viewOrder,
                   viewLoading, viewError, lookups, recent_orders>>

HasFreeLookup == \E k \in DOMAIN lookups : lookups[k] = NoCall

FreeLookup ==
    CHOOSE k \in DOMAIN lookups :
        /\ lookups[k] = NoCall
        /\ \A j \in 1 .. k - 1 : lookups[j] # NoCall

\* searchOrder up to its await, from the Track button (disabled while
\* loading or with a blank token) or from Enter in the input (handleKeyPress,
\* never disabled)
searchOrder(byKey) ==
    /\ viewOpen
    /\ byKey \/ (~viewLoading /\ TrimText(viewToken) # << >>)
    /\ IF TrimText(viewToken) = << >>
       THEN /\ viewError' = "Please enter your tracking token"
            /\ viewToast' = << [title |-> "Missing token",
                                description |->
                                    "Please enter your tracking token"] >>
            /\ UNCHANGED <<viewLoading, viewOrder, lookups>>
       ELSE /\ HasFreeLookup
            /\ viewLoading' = TRUE
            /\ viewError' = ""
            /\ viewOrder' = Null
            /\ lookups' = [lookups EXCEPT ![FreeLookup] =
                              [kind |-> "lookup", phase |-> "sent",
                               token |-> TrimText(viewToken), data |-> Null]]
            /\ viewToast' = << >>
    /\ UNCHANGED <<formVars, dashVars, loginVars, route, viewOpen, viewToken,
                   recent_orders>>

\* what the request of a lookup can come to: the table serves it, returns an
\* error other than "no row", or the request itself rejects
LookupOutcomes == {"served", "error", "rejects"}

\* the table serves .select('*').eq('tracking_token', token).single()
StoreLookup(k, outcome) ==
    /\ k \in DOMAIN lookups
    /\ lookups[k].kind = "lookup"
    /\ lookups[k].phase = "sent"
    /\ LET found == { id \in DOMAIN db :
                        TokenText(db[id].tracking_token) = lookups[k].token }
       IN lookups' = [lookups EXCEPT ![k] =
              CASE outcome = "served" /\ found # {} ->
                      [@ EXCEPT !.phase = "ok",
                                !.data = db[CHOOSE id \in found : TRUE]]
                [] outcome = "served" /\ found = {} ->
                      [@ EXCEPT !.phase = "PGRST116"]
                [] outcome = "error" -> [@ EXCEPT !.phase = "error"]
                [] OTHER -> [@ EXCEPT !.phase = "rejected"]]
    /\ viewToast' = << >>
    /\ UNCHANGED <<formVars, dashVars, loginVars, route, viewOpen, viewToken,
                   viewOrder, viewLoading, viewError, recent_orders>>

\* what the localStorage calls of searchOrder can do
RecentOutcomes == {"ok", "throwsOnRead", "throwsOnWrite"}

\* searchOrder after its await: the error branches, or setOrder and the
\* recent-orders list and the toast, or the catch block; finally
\* setLoading(false)
LookupReturns(k, ls) ==
    /\ k \in DOMAIN lookups
    /\ lookups[k].kind = "lookup"
    /\ lookups[k].phase # "sent"
    /\ lookups[k].phase = "ok" \/ ls = "ok"
    /\ CASE lookups[k].phase = "PGRST116" ->
               /\ viewError' =
                     "Order not found. Please check your tracking token."
               /\ viewToast' = << >>
               /\ UNCHANGED <<viewOrder, recent_orders>>
         [] lookups[k].phase = "error" ->
               /\ viewError' = "Error fetching order: message"
               /\ viewToast' = << >>
               /\ UNCHANGED <<viewOrder, recent_orders>>
         [] lookups[k].phase = "rejected" ->
               /\ viewError' = "Failed to fetch order. Please try again."
               /\ viewToast' = << >>
               /\ UNCHANGED <<viewOrder, recent_orders>>
         [] OTHER ->
               /\ viewOrder' = lookups[k].data
               /\ IF ls = "ok"
                  THEN /\ recent_orders' =
                            << orderSummary(lookups[k].data) >> \o
                            WithoutToken(recent_orders,
                                         lookups[k].data.tracking_token)
                       /\ viewToast' = << [title |-> "Order found!",
                                           description |->
                                               "Tracking your order now"] >>
                       /\ UNCHANGED viewError
                  ELSE /\ viewError' =
                            "Failed to fetch order. Please try again."
                       /\ viewToast' = << >>
                       /\ UNCHANGED recent_orders
    /\ viewLoading' = FALSE
    /\ lookups' = [lookups EXCEPT ![k] = NoCall]
    /\ UNCHANGED <<formVars, dashVars, loginVars, route, viewOpen, viewToken>>

ViewStep ==
    \/ \E v \in TokenTexts : setTrackingToken(v)
    \/ \E byKey \in BOOLEAN : searchOrder(byKey)
    \/ \E k \in 1 .. MaxLookups, outcome \in LookupOutcomes :
          StoreLookup(k, outcome)
    \/ \E k \in 1 .. MaxLookups, ls \in RecentOutcomes : LookupReturns(k, ls)

SpecView == InitView /\ [][ViewStep]_vars

----------------------------------------------------------------------------
(* The slot dialog of DashboardContent.tsx                                  *)

\* Bounds of the model
MaxSlots == 2           \* rows of the slots table
SlotInFlight == 1       \* remote calls on "slots" in flight at a time

Digits == << "0", "1", "2", "3", "4", "5", "6", "7", "8", "9" >>

\* NaN, which parseInt returns for a text that starts with no digit
NaN == -1

DigitValue(c) == (CHOOSE i \in DOMAIN Digits : Digits[i] = c) - 1

IsDigit(c) == \E i \in DOMAIN Digits : Digits[i] = c

RECURSIVE ParseDigits(_, _)
\* the number the leading digits of t continue from acc
ParseDigits(t, acc) ==
    IF t = << >> \/ ~IsDigit(Head(t)) THEN acc
    ELSE ParseDigits(Tail(t), acc * 10 + DigitValue(Head(t)))

\* parseInt(text) on a text without sign or leading blanks
parseInt(t) ==
    IF t = << >> \/ ~IsDigit(Head(t)) THEN NaN ELSE ParseDigits(t, 0)

RECURSIVE toString(_)
\* Number.prototype.toString of a natural number
toString(n) ==
    IF n < 10 THEN << Digits[n + 1] >>
    ELSE toString(n \div 10) \o << Digits[(n % 10) + 1] >>

\* the row the slots table starts with
SeedSlots ==
    << [id |-> 1, start_date |-> 304, end_date |-> 310, daily_slots |-> 20,
        is_active |-> TRUE] >>

\* what the vendor types or picks in the fields of the dialog (the dates are
\* left as the dialog shows them)
SlotCounts == { << "5" >> }
SlotFlags == {FALSE}

\* the object handleSlotSubmit passes to insert and to update
slotValues(form) ==
    [start_date |-> form.startDate,
     end_date |-> form.endDate,
     daily_slots |-> parseInt(form.dailySlots),
     is_active |-> form.isActive]

HasFreeSlotCall == \E k \in DOMAIN slotCalls : slotCalls[k] = NoCall

FreeSlotCall == CHOOSE k \in DOMAIN slotCalls : slotCalls[k] = NoCall

\* fetchSlots up to its await
FetchSlotsCall == [kind |-> "fetchSlots", phase |-> "sent", data |-> << >>]

\* the slots page takes clicks: the dashboard is displayed and no dialog is
\* open over it
SlotsPageUsable == PageUsable(1) /\ ~isSlotModalOpen

\* the dashboard displayed after its first load, fetchSlots of the mount
\* effect still under way
InitSlots ==
    /\ FormIdle
    /\ PagesIdle
    /\ route = "/dashboard"
    /\ variant = DashboardContent
    /\ sessions = {1}
    /\ nowDay = DashNow
    /\ db = << >>
    /\ dashMounted = [s \in {1} |-> TRUE]
    /\ orders = [s \in {1} |-> << >>]
    /\ analytics = [s \in {1} |-> calculateAnalytics(<< >>)]
    /\ loading = [s \in {1} |-> FALSE]
    /\ dateRange = [s \in {1} |-> "week"]
    /\ customStartDate = [s \in {1} |-> 0]
    /\ customEndDate = [s \in {1} |-> 0]
    /\ selectedOrder = [s \in {1} |-> Null]
    /\ actionType = [s \in {1} |-> NullText]
    /\ calls = [s \in {1} |-> << >>]
    /\ dashToast = << >>
    /\ slotsTable = SeedSlots
    /\ slots = << >>
    /\ isSlotModalOpen = FALSE
    /\ selectedSlot = Null
    /\ slotForm = initialSlotForm
    /\ slotCalls = [k \in 1 .. SlotInFlight |->
                       IF k = 1 THEN FetchSlotsCall ELSE NoCall]

\* "+ Add Slot Range": the onClick of the button, then the dialog trigger
\* opens the dialog
AddSlotRange ==
    /\ SlotsPageUsable
    /\ selectedSlot' = Null
    /\ slotForm' = [startDate |-> nowDay, endDate |-> nowDay + 7,
                    dailySlots |-> << "2", "0" >>, isActive |-> TRUE]
    /\ isSlotModalOpen' = TRUE
    /\ dashToast' = << >>
    /\ UNCHANGED <<pageVars, formVars, orderVars, slotsTable, slots, slotCalls>>

\* the Edit button of the card of slots[i]
EditSlot(i) ==
    /\ SlotsPageUsable
    /\ i \in DOMAIN slots
    /\ selectedSlot' = slots[i]
    /\ slotForm' = [startDate |-> slots[i].start_date,
                    endDate |-> slots[i].end_date,
                    dailySlots |-> toString(slots[i].daily_slots),
                    isActive |-> slots[i].is_active]
    /\ isSlotModalOpen' = TRUE
    /\ dashToast' = << >>
    /\ UNCHANGED <<pageVars, formVars, orderVars, slotsTable, slots, slotCalls>>

\* onChange of a field of the dialog: setSlotForm({ ...slotForm, field: v })
setSlotForm(field, value) ==
    /\ isSlotModalOpen
    /\ slotForm[field] # value
    /\ slotForm' = [slotForm EXCEPT ![field] = value]
    /\ dashToast' = << >>
    /\ UNCHANGED <<pageVars, formVars, orderVars, slotsTable, slots,
                   isSlotModalOpen, selectedSlot, slotCalls>>

\* Cancel, Escape or a click outside: setIsSlotModalOpen(false)
CancelSlotDialog ==
    /\ isSlotModalOpen
    /\ isSlotModalOpen' = FALSE
    /\ dashToast' = << >>
    /\ UNCHANGED <<pageVars, formVars, orderVars, slotsTable, slots,
                   selectedSlot, slotForm, slotCalls>>

\* the rows stored or about to be stored
SlotsClaimed ==
    Len(slotsTable)
    + Cardinality({k \in DOMAIN slotCalls :
                      /\ slotCalls[k] # NoCall
                      /\ slotCalls[k].kind = "insert"
                      /\ slotCalls[k].phase = "sent"})

\* handleSlotSubmit up to its await: an update of the selected slot, or an
\* insert when none is selected, with the values of the form of this render
handleSlotSubmit ==
    /\ isSlotModalOpen
    /\ HasFreeSlotCall
    /\ selectedSlot # Null \/ SlotsClaimed < MaxSlots
    /\ slotCalls' = [slotCalls EXCEPT ![FreeSlotCall] =
          IF selectedSlot # Null
          THEN [kind |-> "update", phase |-> "sent", id |-> selectedSlot.id,
                values |-> slotValues(slotForm)]
          ELSE [kind |-> "insert", phase |-> "sent",
                values |-> slotValues(slotForm)]]
    /\ dashToast' = << >>
    /\ UNCHANGED <<pageVars, formVars, orderVars, slotsTable, slots,
                   isSlotModalOpen, selectedSlot, slotForm>>

\* the table serves .insert(values) or .update(values).eq('id', id), or
\* returns an error and writes nothing
StoreSlotWrite(k, ok) ==
    /\ k \in DOMAIN slotCalls
    /\ slotCalls[k] # NoCall
    /\ slotCalls[k].kind \in {"insert", "update"}
    /\ slotCalls[k].phase = "sent"
    /\ IF ok
       THEN /\ slotsTable' =
                 IF slotCalls[k].kind = "insert"
                 THEN Append(slotsTable,
                             [id |-> Len(slotsTable) + 1] @@ slotCalls[k].values)
                 ELSE [id \in DOMAIN slotsTable |->
                          IF id = slotCalls[k].id
                          THEN slotCalls[k].values @@ slotsTable[id]
                          ELSE slotsTable[id]]
            /\ slotCalls' = [slotCalls EXCEPT ![k].phase = "ok"]
       ELSE /\ UNCHANGED slotsTable
            /\ slotCalls' = [slotCalls EXCEPT ![k].phase = "error"]
    /\ dashToast' = << >>
    /\ UNCHANGED <<pageVars, formVars, orderVars, slots, isSlotModalOpen,
                   selectedSlot, slotForm>>

\* handleSlotSubmit after its await that, on a failure, also forgets the
\* selected slot
SlotSubmitReturns_failureClearsSelection(k) ==
    /\ k \in DOMAIN slotCalls
    /\ slotCalls[k] # NoCall
    /\ slotCalls[k].kind \in {"insert", "update"}
    /\ slotCalls[k].phase \in {"ok", "error"}
    /\ IF slotCalls[k].phase = "ok"
       THEN /\ dashToast' = << Toast(1, "Success",
                   IF slotCalls[k].kind = "update"
                   THEN "Slot range updated successfully"
                   ELSE "Slot range created successfully") >>
            /\ slotCalls' = [slotCalls EXCEPT ![k] = FetchSlotsCall]
            /\ isSlotModalOpen' = FALSE
            /\ selectedSlot' = Null
            /\ slotForm' = initialSlotForm
       ELSE /\ dashToast' = << Toast(1, "Error", "Failed to save slot range") >>
            /\ slotCalls' = [slotCalls EXCEPT ![k] = NoCall]
            /\ selectedSlot' = Null
            /\ UNCHANGED <<isSlotModalOpen, slotForm>>
    /\ UNCHANGED <<pageVars, formVars, orderVars, slotsTable, slots>>

\* handleSlotSubmit after its await: on success the toast, fetchSlots, and the
\* dialog closed with its state reset; on an error the catch block
SlotSubmitReturns(k) ==
    /\ k \in DOMAIN slotCalls
    /\ slotCalls[k] # NoCall
    /\ slotCalls[k].kind \in {"insert", "update"}
    /\ slotCalls[k].phase \in {"ok", "error"}
    /\ IF slotCalls[k].phase = "ok"
       THEN /\ dashToast' = << Toast(1, "Success",
                   IF slotCalls[k].kind = "update"
                   THEN "Slot range updated successfully"
                   ELSE "Slot range created successfully") >>
            /\ slotCalls' = [slotCalls EXCEPT ![k] = FetchSlotsCall]
            /\ isSlotModalOpen' = FALSE
            /\ selectedSlot' = Null
            /\ slotForm' = initialSlotForm
       ELSE /\ dashToast' = << Toast(1, "Error", "Failed to save slot range") >>
            /\ slotCalls' = [slotCalls EXCEPT ![k] = NoCall]
            /\ UNCHANGED <<isSlotModalOpen, selectedSlot, slotForm>>
    /\ UNCHANGED <<pageVars, formVars, orderVars, slotsTable, slots>>

RECURSIVE EarliestFirst(_)
\* .order('start_date', { ascending: true }), rows of one date by id
EarliestFirst(ids) ==
    IF ids = {} THEN << >>
    ELSE LET first == CHOOSE id \in ids :
                          \A other \in ids :
                              \/ slotsTable[id].start_date < slotsTable[other].start_date
                              \/ /\ slotsTable[id].start_date = slotsTable[other].start_date
                                 /\ id <= other
         IN << slotsTable[first] >> \o EarliestFirst(ids \ {first})

\* the table serves the select of fetchSlots, or returns an error
StoreSlotSelect(k, ok) ==
    /\ k \in DOMAIN slotCalls
    /\ slotCalls[k] # NoCall
    /\ slotCalls[k].kind = "fetchSlots"
    /\ slotCalls[k].phase = "sent"
    /\ slotCalls' = [slotCalls EXCEPT
          ![k].phase = IF ok THEN "ok" ELSE "error",
          ![k].data = IF ok THEN EarliestFirst(DOMAIN slotsTable) ELSE << >>]
    /\ dashToast' = << >>
    /\ UNCHANGED <<pageVars, formVars, orderVars, slotsTable, slots,
                   isSlotModalOpen, selectedSlot, slotForm>>

\* fetchSlots after its await: setSlots, or the catch block
FetchSlotsReturns(k) ==
    /\ k \in DOMAIN slotCalls
    /\ slotCalls[k] # NoCall
    /\ slotCalls[k].kind = "fetchSlots"
    /\ slotCalls[k].phase \in {"ok", "error"}
    /\ IF slotCalls[k].phase = "ok"
       THEN /\ slots' = slotCalls[k].data
            /\ dashToast' = << >>
       ELSE /\ dashToast' = << Toast(1, "Error", "Failed to load slots") >>
            /\ UNCHANGED slots
    /\ slotCalls' = [slotCalls EXCEPT ![k] = NoCall]
    /\ UNCHANGED <<pageVars, formVars, orderVars, slotsTable, isSlotModalOpen,
                   selectedSlot, slotForm>>

NextSlots ==
    \/ AddSlotRange
    \/ \E i \in 1 .. MaxSlots : EditSlot(i)
    \/ \E value \in SlotCounts : setSlotForm("dailySlots", value)
    \/ \E value \in SlotFlags : setSlotForm("isActive", value)
    \/ CancelSlotDialog
    \/ handleSlotSubmit
    \/ \E k \in 1 .. SlotInFlight, ok \in BOOLEAN : StoreSlotWrite(k, ok)
    \/ \E k \in 1 .. SlotInFlight : SlotSubmitReturns(k)
    \/ \E k \in 1 .. SlotInFlight, ok \in BOOLEAN : StoreSlotSelect(k, ok)
    \/ \E k \in 1 .. SlotInFlight : FetchSlotsReturns(k)

SpecSlots == InitSlots /\ [][NextSlots]_vars

----------------------------------------------------------------------------
(* The tracking page over three orders, for the list of recent searches     *)

\* Bounds of the model
RecentRows == 3         \* rows of the orders table
RecentInFlight == 2     \* lookups in flight at a time

\* the tokens the customer types: those of the table, and one of no order
RecentTokenTexts == { TokenText(n) : n \in 1 .. RecentRows } \cup { << "9" >> }

RecentTable ==
    [id \in 1 .. RecentRows |->
        [order_status |-> "pending",
         payment_status |-> "awaiting confirmation"] @@ SeedOrder(id)]

\* the tracking page in a browser whose localStorage has no "recent_orders"
InitRecent ==
    /\ route = "/view-order"
    /\ FormIdle
    /\ LoginIdle
    /\ variant = "none"
    /\ sessions = {}
    /\ nowDay = DashNow
    /\ db = RecentTable
    /\ dashMounted = << >>
    /\ orders = << >>
    /\ analytics = << >>
    /\ loading = << >>
    /\ dateRange = << >>
    /\ customStartDate = << >>
    /\ customEndDate = << >>
    /\ selectedOrder = << >>
    /\ actionType = << >>
    /\ calls = << >>
    /\ dashToast = << >>
    /\ SlotsIdle
    /\ viewOpen = TRUE
    /\ viewToken = << >>
    /\ viewOrder = Null
    /\ viewLoading = FALSE
    /\ viewError = ""
    /\ lookups = [k \in 1 .. RecentInFlight |-> NoCall]
    /\ viewToast = << >>
    /\ recent_orders = << >>

NextRecent ==
    \/ \E v \in RecentTokenTexts : setTrackingToken(v)
    \/ \E byKey \in BOOLEAN : searchOrder(byKey)
    \/ \E k \in 1 .. RecentInFlight, outcome \in LookupOutcomes :
          StoreLookup(k, outcome)
    \/ \E k \in 1 .. RecentInFlight, ls \in RecentOutcomes : LookupReturns(k, ls)

SpecRecent == InitRecent /\ [][NextRecent]_vars

----------------------------------------------------------------------------
(* The three pages a customer or vendor types into, each on its own route   *)

InitPages == InitForm \/ InitLogin \/ InitView

NextPages == FormStep \/ LoginStep \/ ViewStep

SpecPages == InitPages /\ [][NextPages]_vars

----------------------------------------------------------------------------
(* Properties of the order form                                             *)

\* the catalog prices as the specification states them
CatalogPrice(f) ==
    CASE f = "fried-rice" -> 25
      [] f = "noodles-chicken" -> 25
      [] f = "noodles-no-chicken" -> 20
      [] OTHER -> 0

\* C1: for every food selection and every pack count n in 1..20 the rendered
\* subtotal is unitPrice * n, unitPrice being the catalog price of the
\* selection (25, 25 or 20) and 0 for an identifier outside the catalog,
\* the empty selection included.
C1_SubtotalIsUnitPriceTimesPacks ==
    priceShown # Null =>
        /\ formData.packs \in 1 .. 20
        /\ priceShown.subtotal = CatalogPrice(formData.foodType) * formData.packs

C1_Witness ==
    /\ priceShown # Null
    /\ formData.foodType = "noodles-no-chicken"
    /\ formData.packs = 20
    /\ priceShown.subtotal = 400

\* C2: in every form state total = subtotal + rushFee + deliveryFee, with
\* rushFee 5 exactly for same-day orders and deliveryFee 8 exactly for
\* deliveries; so same-day costs 5 more than pre-order and delivery 8 more
\* than pickup, all else equal.
C2_TotalIsSubtotalPlusFees ==
    priceShown # Null =>
        /\ priceShown.total =
              priceShown.subtotal + priceShown.rushFee + priceShown.deliveryFee
        /\ priceShown.rushFee = (IF formData.orderType = "same-day" THEN 5 ELSE 0)
        /\ priceShown.deliveryFee = (IF formData.deliverToMe THEN 8 ELSE 0)
        /\ total([formData EXCEPT !.orderType = "same-day"]) =
              total([formData EXCEPT !.orderType = "pre-order"]) + 5
        /\ total([formData EXCEPT !.deliverToMe = TRUE]) =
              total([formData EXCEPT !.deliverToMe = FALSE]) + 8

C2_Witness ==
    /\ priceShown # Null
    /\ formData.foodType = "fried-rice"
    /\ formData.packs = 2
    /\ formData.orderType = "same-day"
    /\ formData.deliverToMe
    /\ priceShown = [subtotal |-> 50, rushFee |-> 5, deliveryFee |-> 8,
                     total |-> 63]

\* C3: packs stays an integer in 1..20 through every sequence of increments,
\* decrements, submissions and resets; a decrement at 1 and an increment at
\* 20 leave it unchanged; every row the form inserts has number_of_packs in
\* 1..20.
C3_PacksClamped ==
    /\ [](/\ formData.packs \in 1 .. 20
          /\ insertCall # Null => insertCall.number_of_packs \in 1 .. 20
          /\ \A i \in 1 .. Len(ordersTable) :
                ordersTable[i].number_of_packs \in 1 .. 20)
    /\ [][/\ (handlePacksChange(-1) /\ formData.packs = 1) => formData'.packs = 1
          /\ (handlePacksChange(1) /\ formData.packs = 20) => formData'.packs = 20
          /\ formData'.packs \in {formData.packs - 1, formData.packs,
                                   formData.packs + 1, 1}]_vars

C3_Witness ==
    /\ Len(ordersTable) = 1
    /\ ordersTable[1].number_of_packs = 20
    /\ ~isSuccess
    /\ trackingToken = 0
    /\ formData.packs = 1

\* C4: the offered order types depend on the weekday only, [same-day] on
\* Saturday and Sunday and [pre-order] on every other day; once the form has
\* mounted, formData.orderType is that single offered type in every state,
\* also after resetForm.
C4_OrderTypeIsTheOfferedOne ==
    mounted =>
        /\ availableOrderTypes =
              (IF today \in {0, 6} THEN << "same-day" >> ELSE << "pre-order" >>)
        /\ formData.orderType = availableOrderTypes[1]

C4_Witness ==
    /\ mounted
    /\ today = 6
    /\ Len(ordersTable) = 1
    /\ ~isSuccess
    /\ trackingToken = 0
    /\ formData.orderType = "same-day"

----------------------------------------------------------------------------
(* Properties of the vendor dashboard                                       *)

\* the position of a status on pending -> preparing -> ready -> delivered
StatusRank(st) ==
    CASE st = "pending" -> 0
      [] st = "preparing" -> 1
      [] st = "ready" -> 2
      [] st = "delivered" -> 3
      [] OTHER -> -1

\* the first part of C5 on its own: a change of a stored order_status is one
\* step forward
OneStepForward ==
    [][\A id \in DOMAIN db :
          db'[id].order_status # db[id].order_status =>
              StatusRank(db'[id].order_status) =
                  StatusRank(db[id].order_status) + 1]_vars

\* the second part of C5 on its own: payment_status only changes from
\* "awaiting confirmation" to "confirmed paid"
PaymentOnlyConfirmed ==
    [][\A id \in DOMAIN db :
          db'[id].payment_status # db[id].payment_status =>
              /\ db[id].payment_status = "awaiting confirmation"
              /\ db'[id].payment_status = "confirmed paid"]_vars

\* the third part of C5 on its own: a listed row that is delivered and paid
\* has no button
NothingOfferedWhenDone ==
    \A s \in sessions : \A i \in 1 .. Len(orders[s]) :
        (/\ orders[s][i].order_status = "delivered"
         /\ orders[s][i].payment_status = "confirmed paid")
            => OfferedActions(variant, orders[s][i]) = {}

\* C5: in DashboardContent with a single session, every change a vendor
\* action makes to a stored order_status is exactly one step forward along
\* pending -> preparing -> ready -> delivered, payment_status only changes
\* from "awaiting confirmation" to "confirmed paid", and no action is offered
\* for a row that is delivered and paid.
C5_SingleSessionOneStepForward ==
    /\ OneStepForward
    /\ PaymentOnlyConfirmed
    /\ []NothingOfferedWhenDone

\* C6: with two DashboardContent sessions acting on the same order, each from
\* its own last-fetched list, the stored order_status never moves to an
\* earlier state of pending -> preparing -> ready -> delivered.
C6_StoredStatusNeverMovesBack ==
    [][\A id \in DOMAIN db :
          StatusRank(db'[id].order_status) >= StatusRank(db[id].order_status)]_vars

\* C7: in pages/Dashboard.tsx cancelled is terminal: once the stored
\* order_status is cancelled no vendor action changes it again.
C7_CancelledIsTerminal ==
    [][\A id \in DOMAIN db :
          (variant = Dashboard /\ db[id].order_status = "cancelled")
              => db'[id].order_status = "cancelled"]_vars

\* the guard the specification gives for an action, on a row of the list
ActionGuard(a, row) ==
    /\ a = "confirmPayment" =>
          row.payment_status \in {"awaiting confirmation",
                                  "awaiting_confirmation"}
    /\ a = "markDelivered" => row.order_status = "ready"
    /\ a = "cancelOrder" =>
          variant = Dashboard /\ row.order_status \in {"pending", "preparing"}

\* C8: a vendor action is opened only for a row of the in-memory list that
\* satisfies the guard of the action: confirm payment only while the payment
\* status is awaiting confirmation, mark delivered only while the order
\* status is ready, cancel (pages/Dashboard.tsx) only while it is pending or
\* preparing; and the open dialog keeps that row.
C8_ActionOpenedOnlyUnderItsGuard ==
    /\ [][\A s \in sessions :
             (selectedOrder[s] = Null /\ selectedOrder'[s] # Null) =>
                 /\ \E i \in 1 .. Len(orders[s]) :
                        orders[s][i] = selectedOrder'[s]
                 /\ actionType'[s] # NullText
                 /\ ActionGuard(actionType'[s], selectedOrder'[s])]_vars
    /\ [](\A s \in sessions :
             DialogOpen(s) => ActionGuard(actionType[s], selectedOrder[s]))

C8_Witness ==
    /\ variant = Dashboard
    /\ \E s \in sessions :
          /\ DialogOpen(s)
          /\ actionType[s] = "cancelOrder"
          /\ selectedOrder[s].order_status = "preparing"
          /\ orders[s] = << selectedOrder[s] >>

\* C9: when the remote update of a vendor action returns an error, the
\* stored rows, the in-memory list and the analytics are unchanged, both when
\* the table answers and when handleOrderAction handles the answer; the
\* handler issues the error notification "Failed to update order", no
\* success notification, and no re-fetch.
C9_FailedUpdateChangesNothing ==
    [][\A s \in sessions : \A k \in DOMAIN calls[s] :
          calls[s][k].kind = "update" =>
              /\ (/\ calls[s][k].phase = "sent"
                  /\ calls'[s][k].kind = "update"
                  /\ calls'[s][k].phase = "error")
                     => /\ db' = db
                        /\ orders' = orders
                        /\ analytics' = analytics
              /\ (calls[s][k].phase = "error" /\ calls'[s][k] # calls[s][k])
                     => /\ db' = db
                        /\ orders' = orders
                        /\ analytics' = analytics
                        /\ calls'[s][k] = NoCall
                        /\ dashToast' =
                              << Toast(s, "Error", "Failed to update order") >>
                        /\ \A i \in 1 .. Len(dashToast') :
                              dashToast'[i].title # "Success"]_vars

C9_Witness ==
    /\ \E s \in sessions :
          /\ dashToast = << Toast(s, "Error", "Failed to update order") >>
          /\ Len(orders[s]) = 1
          /\ orders[s][1] = db[1]
          /\ \A k \in DOMAIN calls[s] : calls[s][k] = NoCall

\* handleOrderAction finishes in this step: the fetchOrders it awaited runs
\* its continuation
ActionFinishes(s, k) ==
    /\ calls[s][k].kind = "fetch"
    /\ calls[s][k].fromAction
    /\ calls[s][k].phase \in {"ok", "error"}
    /\ calls'[s][k] = NoCall

\* C10 as stated: when handleOrderAction finishes after a successful update,
\* the in-memory list has been replaced by a fetch for the current date
\* range (the list is never left holding the pre-update record).
C10_ListAlwaysReplaced ==
    [][\A s \in sessions : \A k \in DOMAIN calls[s] :
          ActionFinishes(s, k) =>
              /\ calls[s][k].phase = "ok"
              /\ calls[s][k].query = OrdersQuery(s)
              /\ orders'[s] = calls[s][k].data]_vars

\* C10 amended: when handleOrderAction finishes after a successful update,
\* and the re-fetch it issued succeeded, the list is the rows the table
\* returned for the date range of the render that confirmed the action and
\* the analytics are computed from them; when that re-fetch failed, the list
\* and the analytics are as they were and "Failed to load orders" is
\* notified.
C10_ListReplacedWhenRefetchSucceeds ==
    [][\A s \in sessions : \A k \in DOMAIN calls[s] :
          ActionFinishes(s, k) =>
              IF calls[s][k].phase = "ok"
              THEN /\ orders'[s] = calls[s][k].data
                   /\ analytics'[s] = calculateAnalytics(calls[s][k].data)
                   /\ \A i \in 1 .. Len(orders'[s]) :
                         /\ ~calls[s][k].query.filtered
                              \/ (/\ orders'[s][i].created_at >=
                                        calls[s][k].query.start
                                  /\ orders'[s][i].created_at <=
                                        calls[s][k].query.end)
              ELSE /\ orders'[s] = orders[s]
                   /\ analytics'[s] = analytics[s]
                   /\ dashToast' =
                         << Toast(s, "Error", "Failed to load orders") >>]_vars

C10_Witness ==
    \E s \in sessions :
        /\ dashToast = << Toast(s, "Error", "Failed to load orders") >>
        /\ ~DialogOpen(s)
        /\ db[1].payment_status = "confirmed paid"
        /\ Len(orders[s]) = 1
        /\ orders[s][1].payment_status = "awaiting confirmation"
        /\ \A k \in DOMAIN calls[s] : calls[s][k] = NoCall

\* the fields a vendor action may write
StatusFields == {"order_status", "payment_status"}

\* C11: vendor actions of both dashboard files only issue updates of
\* order_status and/or payment_status keyed by the identifier of the selected
\* order: when a stored row changes, an update for its identifier is in
\* flight, no other field of the row and no other row changes, and no row is
\* ever deleted.
C11_OnlyStatusOfSelectedOrderChanges ==
    [][/\ DOMAIN db' = DOMAIN db
       /\ \A id \in DOMAIN db :
             db'[id] # db[id] =>
                 /\ DOMAIN db'[id] = DOMAIN db[id]
                 /\ \A f \in DOMAIN db[id] \ StatusFields :
                       db'[id][f] = db[id][f]
                 /\ \A other \in DOMAIN db \ {id} : db'[other] = db[other]
                 /\ \E s \in sessions : \E k \in DOMAIN calls[s] :
                       /\ calls[s][k].kind = "update"
                       /\ calls[s][k].order_id = id
       /\ \A s \in sessions : \A k \in DOMAIN calls[s] :
             (calls[s][k] = NoCall /\ calls'[s][k].kind = "update") =>
                 /\ calls'[s][k].order_id = selectedOrder[s].order_id
                 /\ DOMAIN calls'[s][k].updates \subseteq StatusFields
                 /\ DOMAIN calls'[s][k].updates # {}]_vars

C11_Witness ==
    /\ variant = DashboardContent
    /\ DOMAIN db = {1, 2}
    /\ db[2].payment_status = "confirmed paid"
    /\ db[2] = [SeedOrder(2) EXCEPT !.payment_status = "confirmed paid"]
    /\ db[1].payment_status = "awaiting confirmation"
    /\ db[1] = SeedOrder(1)

\* the toast of searchOrder for a blank token
MissingTokenToast ==
    << [title |-> "Missing token",
        description |-> "Please enter your tracking token"] >>

\* C12: when a validation rule of the order form, of the login page or of
\* the tracking page fails, no remote call is sent and nothing is written:
\* from a form that fails validation with no insert in flight no step sends
\* an insert, stores a row, writes localStorage or sets isSubmitting; from a
\* login form that fails validation with no sign-in in flight no step sends
\* a sign-in, writes "vendor_email" or sets loading; the step that reports a
\* blank tracking token sends no lookup, writes no recent order and changes
\* neither loading nor the order displayed.
C12_ValidationFailureHasNoEffect ==
    [][ /\ (FormShown /\ validationToast # NoToast
            /\ insertCall = Null /\ ~isSubmitting)
           => /\ insertCall' = Null
              /\ ordersTable' = ordersTable
              /\ localStorage' = localStorage
              /\ isSubmitting' = FALSE
              /\ isSuccess' = isSuccess
        /\ (loginOpen /\ validateForm(loginForm) # NoLoginErrors
            /\ loginCall = Null /\ ~loginLoading)
           => /\ loginCall' = Null
              /\ vendor_email' = vendor_email
              /\ loginLoading' = FALSE
        /\ (viewToast' = MissingTokenToast)
           => /\ TrimText(viewToken) = << >>
              /\ lookups' = lookups
              /\ recent_orders' = recent_orders
              /\ viewLoading' = viewLoading
              /\ viewOrder' = viewOrder
              /\ db' = db ]_vars

\* the form has just refused a delivery without an address
C12_Witness ==
    /\ formToast = "Delivery address required"
    /\ formData.deliverToMe
    /\ Trim(formData.deliveryAddress) = ""
    /\ insertCall = Null
    /\ ~isSubmitting
    /\ ordersTable = << >>

\* a remote operation of one of the three pages is started by this step
InsertStarts == insertCall = Null /\ insertCall' # Null
SignInStarts == loginCall = Null /\ loginCall' # Null
LookupStarts ==
    \E k \in DOMAIN lookups : lookups[k] = NoCall /\ lookups'[k] # NoCall

\* the failure of a remote operation is handled by this step
InsertFailureHandled ==
    insertCall # Null /\ insertCall' = Null /\ ordersTable' = ordersTable
SignInFailureHandled ==
    /\ loginCall # Null
    /\ loginCall' = Null
    /\ loginToast' # << >>
    /\ loginToast'[1].title = "Login failed"
LookupFailureHandled ==
    \E k \in DOMAIN lookups :
        /\ lookups[k] # NoCall
        /\ lookups[k].phase \in {"PGRST116", "error", "rejected"}
        /\ lookups'[k] = NoCall

\* what starting and failing leave alone on the form and on the login page,
\* and what a failed lookup leaves alone
FormAndLoginRestored ==
    /\ InsertStarts
          => /\ formData' = formData
             /\ agreedToTerms' = agreedToTerms
             /\ isSuccess' = isSuccess
             /\ trackingToken' = trackingToken
             /\ localStorage' = localStorage
    /\ InsertFailureHandled
          => /\ formData' = formData
             /\ agreedToTerms' = agreedToTerms
             /\ isSuccess' = isSuccess
             /\ trackingToken' = trackingToken
             /\ localStorage' = localStorage
             /\ isSubmitting' = FALSE
    /\ SignInStarts
          => /\ loginForm' = loginForm
             /\ vendor_email' = vendor_email
             /\ navigateTimer' = navigateTimer
    /\ SignInFailureHandled
          => /\ loginForm' = loginForm
             /\ vendor_email' = vendor_email
             /\ navigateTimer' = navigateTimer
             /\ route' = route
             /\ loginLoading' = FALSE
    /\ LookupFailureHandled
          => /\ viewToken' = viewToken
             /\ viewOrder' = viewOrder
             /\ recent_orders' = recent_orders
             /\ viewLoading' = FALSE
             /\ viewError' # ""

NotFoundHandled ==
    \E k \in DOMAIN lookups :
        /\ lookups[k] # NoCall
        /\ lookups[k].phase = "PGRST116"
        /\ lookups'[k] = NoCall

\* C14: when a lookup finds no order for the token (PGRST116), the step
\* that handles it sets the inline error text, issues no notification,
\* leaves no order displayed, adds nothing to the recent orders and sets
\* loading to false.
C14_NotFoundIsInlineOnly ==
    [][ NotFoundHandled
          => /\ viewError' =
                   "Order not found. Please check your tracking token."
             /\ viewToast' = << >>
             /\ viewOrder' = Null
             /\ recent_orders' = recent_orders
             /\ viewLoading' = FALSE ]_vars

\* the continuation of a successful insert, of a successful lookup, runs in
\* this step
InsertSuccessHandled ==
    insertCall # Null /\ Len(ordersTable') = Len(ordersTable) + 1
LookupSuccessHandled(k) ==
    lookups[k] # NoCall /\ lookups[k].phase = "ok" /\ lookups'[k] = NoCall

\* C15: localStorage never decides the outcome of a remote operation: the
\* step that handles a successful insert ends in the success state with the
\* token of the stored row and reports no failure, and the step that handles
\* a successful lookup displays the order found and sets no error text,
\* whatever the localStorage calls of the step do.
C15_LocalStorageIsBestEffort ==
    [][ /\ InsertSuccessHandled
           => /\ isSuccess'
              /\ trackingToken' = ordersTable'[Len(ordersTable')].tracking_token
              /\ formToast' # "Order failed"
              /\ ~isSubmitting'
        /\ \A k \in DOMAIN lookups :
              LookupSuccessHandled(k)
                 => /\ viewOrder' = lookups[k].data
                    /\ viewError' = viewError
                    /\ ~viewLoading' ]_vars

\* the delivery fields of an inserted row agree with its delivery flag
DeliveryFieldsAgree(row) ==
    /\ row.deliver_to_me
          <=> (row.delivery_address # NullText
                 /\ Trim(row.delivery_address) # "")
    /\ row.delivery_method \in {"delivery", "pickup"}
    /\ row.delivery_method = "delivery" <=> row.deliver_to_me
    /\ ~row.deliver_to_me => row.delivery_address = NullText

\* C16: every order the form inserts, in flight or stored, has a non-null,
\* non-blank delivery_address exactly when deliver_to_me is true, has
\* delivery_method "delivery" exactly then and "pickup" otherwise, and has
\* a null delivery_address when it is a pickup order.
C16_AddressIffDelivery ==
    /\ insertCall # Null => DeliveryFieldsAgree(insertCall)
    /\ \A i \in 1 .. Len(ordersTable) : DeliveryFieldsAgree(ordersTable[i])

\* a delivery order has been stored with the address typed
C16_Witness ==
    \E i \in 1 .. Len(ordersTable) :
        /\ ordersTable[i].deliver_to_me
        /\ ordersTable[i].delivery_method = "delivery"
        /\ ordersTable[i].delivery_address = "12 Main St"

\* C17 as stated: in every state in which a dashboard is displayed (loading
\* is false) its analytics are calculateAnalytics of the order list it holds.
C17_AnalyticsAlwaysAggregate ==
    \A s \in sessions :
        (dashMounted[s] /\ ~loading[s])
            => analytics[s] = calculateAnalytics(orders[s])

\* C17 as the code has it: the analytics of a dashboard are
\* calculateAnalytics of the order list it holds, or, as long as no fetch has
\* succeeded, the list is empty and the analytics are the initial summary,
\* whose day series is empty.
C17_AnalyticsAggregateOnceFetched ==
    \A s \in sessions :
        \/ analytics[s] = calculateAnalytics(orders[s])
        \/ /\ orders[s] = << >>
           /\ analytics[s] = initialAnalytics
           /\ analytics[s].revenueByDay # calculateAnalytics(<< >>).revenueByDay

\* a dashboard displays a fetched, non-empty list with its aggregate
C17_Witness ==
    \E s \in sessions :
        /\ dashMounted[s]
        /\ ~loading[s]
        /\ orders[s] # << >>
        /\ analytics[s] = calculateAnalytics(orders[s])
        /\ analytics[s].totalRevenue > 0

\* C24: in the DashboardContent variant no order is prepared before it is
\* paid: in every state of the table, under every interleaving of the
\* sessions, an order whose order_status is not pending has the
\* payment_status "confirmed paid".
C24_NotPreparedBeforePaid ==
    variant = DashboardContent =>
        \A id \in DOMAIN db :
            db[id].order_status # "pending"
                => db[id].payment_status = "confirmed paid"

\* an order is being prepared, its payment confirmed, while the other
\* session still lists it as awaiting confirmation
C24_Witness ==
    /\ variant = DashboardContent
    /\ \E id \in DOMAIN db :
          /\ db[id].order_status = "preparing"
          /\ db[id].payment_status = "confirmed paid"
          /\ \E s \in sessions :
                /\ orders[s] # << >>
                /\ orders[s][1].payment_status = "awaiting confirmation"

\* the vendor keeps taking every action that keeps being offered (at a moment
\* when fewer than MaxInFlight requests are under way, so that the request of
\* the action can be sent), and keeps confirming the dialog
ActionsKeepBeingTaken ==
    /\ \A a \in {"confirmPayment", "markPreparing", "markReady",
                  "markDelivered"} :
           SF_vars(OpenAction(1, 1, a) /\ HasFreeSlot(1))
    /\ SF_vars(handleOrderAction(1))

\* no remote call of the kind has been answered with an error
NoneFailed(kind) ==
    \A s \in sessions : \A k \in DOMAIN calls[s] :
        ~(calls[s][k].kind = kind /\ calls[s][k].phase = "error")

\* some action is offered for every stored order that is not delivered
ActionOfferedUnlessDelivered ==
    \A id \in DOMAIN db :
        db[id].order_status # "delivered"
            => OfferedActions(variant, db[id]) # {}

----------------------------------------------------------------------------
(* Properties of the analytics summary, stated on the list a dashboard      *)
(* holds once its fetch has returned                                        *)

RECURSIVE SumOfField(_, _, _)
\* the sum of field f over the orders of list whose position is in S
SumOfField(list, f, S) ==
    IF S = {} THEN 0
    ELSE LET i == CHOOSE j \in S : TRUE
         IN list[i][f] + SumOfField(list, f, S \ {i})

\* the positions of the orders of list created on the weekday called day
CreatedOn(list, day) ==
    { i \in 1 .. Len(list) : DayName(list[i].created_at) = day }

RECURSIVE SumOfEntries(_, _, _)
\* the sum of field f over the first n entries of a series
SumOfEntries(series, f, n) ==
    IF n = 0 THEN 0 ELSE series[n][f] + SumOfEntries(series, f, n - 1)

WeekdayNames == << "Mon", "Tue", "Wed", "Thu", "Fri", "Sat", "Sun" >>

DaySeriesCorrect(list, a) ==
    /\ Len(a.revenueByDay) = 7
    /\ \A i \in 1 .. 7 :
          /\ a.revenueByDay[i].day = WeekdayNames[i]
          /\ a.revenueByDay[i].revenue =
                SumOfField(list, "total_amount", CreatedOn(list, WeekdayNames[i]))
          /\ a.revenueByDay[i].orders =
                Cardinality(CreatedOn(list, WeekdayNames[i]))
    /\ SumOfEntries(a.revenueByDay, "revenue", 7) = a.totalRevenue
    /\ SumOfEntries(a.revenueByDay, "orders", 7) = Len(list)

\* C18: for every order list, revenueByDay is the 7-entry series Mon .. Sun
\* in that order, each entry holding the sum of total_amount and the number
\* of the orders created on its weekday (zero and zero when there is none);
\* the revenues of the entries sum to totalRevenue and their order counts to
\* the length of the list.
C18_RevenueByDayIsCompleteWeek ==
    \A s \in sessions :
        ~loading[s] => DaySeriesCorrect(orders[s], analytics[s])

\* a list with two orders on Monday, one on Sunday and none on Friday
C18_Witness ==
    \E s \in sessions :
        /\ ~loading[s]
        /\ Cardinality(CreatedOn(orders[s], "Mon")) = 2
        /\ Cardinality(CreatedOn(orders[s], "Sun")) = 1
        /\ analytics[s].revenueByDay[1].orders = 2
        /\ analytics[s].revenueByDay[1].revenue = 140
        /\ analytics[s].revenueByDay[5].orders = 0
        /\ analytics[s].revenueByDay[7].revenue = 25

ZeroWeek ==
    [i \in 1 .. 7 |-> [day |-> WeekdayNames[i], revenue |-> 0, orders |-> 0]]

TotalsCorrect(list, a) ==
    /\ a.totalRevenue = SumOfField(list, "total_amount", 1 .. Len(list))
    /\ a.avgOrderValue.den > 0
    /\ IF Len(list) > 0
       THEN a.avgOrderValue.num * Len(list)
               = a.totalRevenue * a.avgOrderValue.den
       ELSE /\ a.avgOrderValue.num = 0
            /\ a.pickupCount = 0
            /\ a.deliveryCount = 0
            /\ a.totalRevenue = 0
            /\ a.topFoodItems = << >>
            /\ a.revenueByDay = ZeroWeek

\* C19: for every order list, totalRevenue is the sum of the orders'
\* total_amount and avgOrderValue is totalRevenue / orders.length for a
\* non-empty list and 0 for the empty one, for which the aggregate has zero
\* counts, zero revenue, zero average, no top items and an all-zero day
\* series.
C19_TotalsAndAverage ==
    \A s \in sessions :
        ~loading[s] => TotalsCorrect(orders[s], analytics[s])

\* two orders of 50 and 33: the total is 83 and the average 83/2
C19_Witness ==
    \E s \in sessions :
        /\ ~loading[s]
        /\ Len(orders[s]) = 2
        /\ analytics[s].totalRevenue = 83
        /\ analytics[s].avgOrderValue = [num |-> 83, den |-> 2]

\* the display names of the orders of list
FoodNames(list) ==
    { foodTypeLabels(list[i].food_type) : i \in 1 .. Len(list) }

\* the positions of the orders of list shown under the display name
NamedAs(list, name) ==
    { i \in 1 .. Len(list) : foodTypeLabels(list[i].food_type) = name }

Least(a, b) == IF a < b THEN a ELSE b

TopItemsCorrect(list, top) ==
    /\ Len(top) = Least(5, Cardinality(FoodNames(list)))
    /\ \A i \in 1 .. Len(top) :
          /\ top[i].name \in FoodNames(list)
          /\ top[i].count =
                SumOfField(list, "number_of_packs", NamedAs(list, top[i].name))
          /\ top[i].revenue =
                SumOfField(list, "total_amount", NamedAs(list, top[i].name))
    /\ \A i, j \in 1 .. Len(top) :
          /\ (i # j => top[i].name # top[j].name)
          /\ (i < j => top[i].count >= top[j].count)
    /\ \A name \in FoodNames(list) \ { top[i].name : i \in 1 .. Len(top) } :
          \A i \in 1 .. Len(top) :
              top[i].count >=
                  SumOfField(list, "number_of_packs", NamedAs(list, name))

FirstEncountered(list, name) ==
    CHOOSE i \in NamedAs(list, name) : \A j \in NamedAs(list, name) : i <= j

\* C21: among the food groups with equal pack counts, topFoodItems lists
\* them in the order in which each group's name was first encountered in
\* the order list, for every list, the ones with orders whose food_type has
\* no catalog label included.
C21_TiesInFirstEncounteredOrder ==
    \A s \in sessions :
        ~loading[s] =>
            LET top == analytics[s].topFoodItems IN
            \A i, j \in 1 .. Len(top) :
                (i < j /\ top[i].count = top[j].count)
                    => FirstEncountered(orders[s], top[i].name)
                         < FirstEncountered(orders[s], top[j].name)

\* the positions of the orders of list with the delivery method m
WithMethod(list, m) ==
    { i \in 1 .. Len(list) : list[i].delivery_method = m }

\* C22: for every order list whose orders are all pickup or delivery
\* orders, pickupCount is the number of pickup orders, deliveryCount the
\* number of delivery orders, and the two add up to the length of the list.
C22_MethodCountsPartitionList ==
    \A s \in sessions :
        (/\ ~loading[s]
         /\ \A i \in 1 .. Len(orders[s]) :
               orders[s][i].delivery_method \in {"pickup", "delivery"})
            => /\ analytics[s].pickupCount
                     = Cardinality(WithMethod(orders[s], "pickup"))
               /\ analytics[s].deliveryCount
                     = Cardinality(WithMethod(orders[s], "delivery"))
               /\ analytics[s].pickupCount + analytics[s].deliveryCount
                     = Len(orders[s])

\* a list of two pickup orders and one delivery order
C22_Witness ==
    \E s \in sessions :
        /\ ~loading[s]
        /\ Len(orders[s]) = 3
        /\ analytics[s].pickupCount = 2
        /\ analytics[s].deliveryCount = 1

----------------------------------------------------------------------------
(* Properties of the date range                                             *)

RECURSIVE DaysBefore(_)
\* the days of the year before month m begins
DaysBefore(m) == IF m = 1 THEN 0 ELSE MonthLengths[m - 1] + DaysBefore(m - 1)

\* the calendar month of day d
MonthNumber(d) ==
    Cardinality({ m \in 1 .. Len(MonthLengths) : DaysBefore(m) < d })

\* the query resolved for the range r on the day now with the custom bounds
\* from and to is the inclusive pair the range stands for
RangeResolved(q, r, now, from, to) ==
    CASE r = "today" -> q.filtered /\ q.start = now /\ q.end = now
      [] r = "week" ->
            /\ q.filtered
            /\ q.start <= now /\ now <= q.end
            /\ Weekday(q.start) = 1
            /\ Weekday(q.end) = 0
            /\ q.end = q.start + 6
      [] r = "month" ->
            /\ q.filtered
            /\ q.start <= now /\ now <= q.end
            /\ q.start = DaysBefore(MonthNumber(now)) + 1
            /\ q.end = DaysBefore(MonthNumber(now))
                          + MonthLengths[MonthNumber(now)]
      [] r = "custom" -> q.filtered /\ q.start = from /\ q.end = to
      [] OTHER -> ~q.filtered

\* the rows served for a query: every row when it is not filtered, else the
\* rows created from start to end, both days included
ServedInclusive(q, data) ==
    { data[i].order_id : i \in 1 .. Len(data) }
        = { id \in DOMAIN db :
              ~q.filtered \/ (q.start <= db[id].created_at
                                /\ db[id].created_at <= q.end) }

\* C23: every query fetchOrders sends is the inclusive pair of the range
\* selected: today gives start = end = today, week the Monday and the Sunday
\* around today, month the first and the last day of today's month, custom
\* the bounds typed, and all sends no creation-time filter; the rows served
\* are the ones created from start to end inclusive, or every row for all.
C23_RangeResolvesToInclusivePair ==
    [][ \A s \in sessions : \A k \in DOMAIN calls[s] :
          /\ (calls[s][k] = NoCall /\ calls'[s][k] # NoCall
               /\ calls'[s][k].kind = "fetch")
                => RangeResolved(calls'[s][k].query, dateRange'[s], nowDay,
                                 customStartDate'[s], customEndDate'[s])
          /\ (calls[s][k] # NoCall /\ calls[s][k].kind = "fetch"
               /\ calls[s][k].phase = "sent" /\ calls'[s][k].phase = "ok")
                => ServedInclusive(calls[s][k].query, calls'[s][k].data) ]_vars

\* on Sunday 1 November the week's list holds both orders and the month's
\* query runs from that day to 30 November
C23_Witness ==
    \E s \in sessions :
        /\ nowDay = 305
        /\ dateRange[s] = "month"
        /\ Len(orders[s]) = 2
        /\ \E k \in DOMAIN calls[s] :
              /\ calls[s][k] # NoCall
              /\ calls[s][k].kind = "fetch"
              /\ calls[s][k].query = [filtered |-> TRUE, start |-> 305,
                                      end |-> 334]

(***************************************************************************)
(* Properties of the order workflow of pages/Dashboard.tsx                 *)
(***************************************************************************)

\* the status that follows on the way to delivered
NextStatus(status) ==
    CASE status = "pending" -> "preparing"
      [] status = "preparing" -> "ready"
      [] status = "ready" -> "delivered"
      [] OTHER -> status

\* C26: in pages/Dashboard.tsx an order that is pending with payment
\* awaiting_confirmation can be brought to delivered by vendor actions the
\* dashboard offers, passing through preparing and ready: as long as the order
\* is pending, preparing or ready, some offered action writes the next status
\* on the way (preparing, then ready, then delivered).
C26_OfferedActionsLeadToDelivered ==
    variant = Dashboard =>
        \A id \in DOMAIN db :
            db[id].order_status \in {"pending", "preparing", "ready"} =>
                \E a \in OfferedActions(variant, db[id]) :
                    LET updates == actionUpdates(variant, a)
                    IN /\ "order_status" \in DOMAIN updates
                       /\ updates.order_status = NextStatus(db[id].order_status)

(***************************************************************************)
(* Properties of overlapping requests                                      *)
(***************************************************************************)

\* no fetch of the session is under way
NoFetchInFlight(s) == \A k \in DOMAIN calls[s] : calls[s][k] = NoCall

\* C27: when the date range was changed while an earlier fetchOrders call was
\* in flight, then once every fetch in flight has completed the order list and
\* the analytics are those of the range selected last, in whatever order the
\* responses arrived.
C27_ListIsOfLatestRange ==
    \A s \in sessions :
        (dashMounted[s] /\ NoFetchInFlight(s)) =>
            LET latest == NewestFirst(Matching(OrdersQuery(s)))
            IN /\ orders[s] = latest
               /\ analytics[s] = calculateAnalytics(latest)

\* C28: at most one tracking lookup of ViewOrder is in flight at any time (a
\* new search cannot be started while loading is true).
C28_AtMostOneLookupInFlight ==
    /\ Cardinality({k \in DOMAIN lookups : lookups[k] # NoCall}) <= 1
    /\ (\E k \in DOMAIN lookups : lookups[k] # NoCall) => viewLoading

(***************************************************************************)
(* Properties of the list of recent searches                               *)
(***************************************************************************)

\* a lookup that found its order and stored it returns in this step
LookupStored(k) ==
    /\ LookupSuccessHandled(k)
    /\ viewToast' = << [title |-> "Order found!",
                        description |-> "Tracking your order now"] >>

\* the entries of the list other than those of the token, in their order
OthersInOrder(list, token) ==
    LET other(o) == o.tracking_token # token
    IN SelectSeq(list, other)

NoTokenTwice(list) ==
    \A i, j \in DOMAIN list :
        list[i].tracking_token = list[j].tracking_token => i = j

\* C29: after any sequence of successful tracking lookups the stored
\* recent_orders list has at most one entry per tracking token; each
\* successful lookup puts the order it found first and leaves the other
\* entries in the order they had.
C29_RecentOrdersMoveToFront ==
    /\ []NoTokenTwice(recent_orders)
    /\ [][ \A k \in DOMAIN lookups :
             LookupStored(k) =>
                 /\ recent_orders' # << >>
                 /\ Head(recent_orders') = orderSummary(lookups[k].data)
                 /\ Tail(recent_orders') =
                        OthersInOrder(recent_orders,
                                      lookups[k].data.tracking_token) ]_vars

\* three orders have been looked up and stored, the first of the table last
C29_Witness ==
    /\ db = RecentTable
    /\ viewOrder = RecentTable[1]
    /\ viewToast # << >>
    /\ Len(recent_orders) = 3
    /\ recent_orders[1].tracking_token = 1
    /\ recent_orders[2].tracking_token = 3
    /\ recent_orders[3].tracking_token = 2

(***************************************************************************)
(* Properties of the slot dialog                                           *)
(***************************************************************************)

\* the form shows the values of the slot
LoadedFrom(form, slot) ==
    /\ form.startDate = slot.start_date
    /\ form.endDate = slot.end_date
    /\ parseInt(form.dailySlots) = slot.daily_slots
    /\ form.isActive = slot.is_active

\* a submit of the dialog sends its request in this step, in the call k
SlotRequestSent(k) ==
    /\ slotCalls[k] = NoCall
    /\ slotCalls'[k] # NoCall
    /\ slotCalls'[k].kind \in {"insert", "update"}

\* C30: submitting the slot dialog writes to the right record after any
\* sequence of opening it via Add or Edit, cancelling, failing and
\* resubmitting. The dialog only opens via Add, which selects no slot, or via
\* the Edit button of a slot, which selects that slot and loads its values;
\* while the dialog stays open the selection does not change; a submit sends
\* an insert iff no slot is selected and otherwise an update keyed by the id
\* of the selected slot; and the table only changes the row of that id.
C30_SubmitWritesSlotLastOpened ==
    [][ /\ AddSlotRange => (isSlotModalOpen' /\ selectedSlot' = Null)
        /\ \A i \in 1 .. MaxSlots :
              EditSlot(i) => /\ isSlotModalOpen'
                             /\ selectedSlot' = slots[i]
                             /\ LoadedFrom(slotForm', slots[i])
        /\ (~isSlotModalOpen /\ isSlotModalOpen')
              => (AddSlotRange \/ \E i \in 1 .. MaxSlots : EditSlot(i))
        /\ (isSlotModalOpen /\ isSlotModalOpen')
              => selectedSlot' = selectedSlot
        /\ \A k \in DOMAIN slotCalls :
              SlotRequestSent(k) =>
                  /\ isSlotModalOpen
                  /\ slotCalls'[k].kind = "insert" <=> selectedSlot = Null
                  /\ slotCalls'[k].kind = "update" =>
                         slotCalls'[k].id = selectedSlot.id
                  /\ slotCalls'[k].values = slotValues(slotForm)
        /\ \A id \in DOMAIN slotsTable :
              slotsTable'[id] # slotsTable[id] =>
                  \E k \in DOMAIN slotCalls :
                      /\ slotCalls[k] # NoCall
                      /\ slotCalls[k].kind = "update"
                      /\ slotCalls[k].id = id
                      /\ slotsTable'[id] = slotCalls[k].values @@ slotsTable[id]
      ]_vars

\* an insert made from Add and an update made from Edit have both been
\* written, each to its own row
C30_Witness ==
    /\ Len(slotsTable) = 2
    /\ slotsTable[1].start_date = 304
    /\ slotsTable[1].daily_slots = 5
    /\ slotsTable[2].start_date = DashNow
    /\ slotsTable[2].daily_slots = 20
    /\ ~isSlotModalOpen
    /\ selectedSlot = Null

====
